---- MODULE Spec2Model ----
(***************************************************************************)
(* A model of the 90Prime CCD reduction pipeline of bokpipe/bokproc.py:    *)
(* frame stacking, the rebinned sky fit, the supersky row bands, the       *)
(* amplifier gain balance of combine_ccds and the overscan subtraction;    *)
(* the files a subtract_overscan run creates, the subprocess of            *)
(* sextract_pass1, concurrent combine_ccds calls and _orient_mosaic.       *)
(*                                                                         *)
(* Pixel values are integers; every quantity the code computes by a        *)
(* division (a mean, a gain ratio) is kept as an exact fraction <<n, d>>   *)
(* with d > 0 in lowest terms, so equalities are decided exactly.          *)
(***************************************************************************)
EXTENDS Integers, Sequences, FiniteSets, TLC

VARIABLES
    \* ---- stack_image_cube / stack_bias_frames
    stk_pc,        \* "ready" | "done"
    imCube,        \* [pixel -> sequence of frame values], the cube's data
    stk_kw,        \* the caller's keyword arguments
    stk_entry,     \* which entry point ran: "none", "stack_image_cube", "stack_bias_frames"
    stk_result,    \* what the call produced
    \* ---- bok_polyfit
    pf_pc, pf_nbin, pf_ccd, pf_cells, pf_X,
    \* ---- make_supersky_flats
    ss_pc,         \* "norms" | "split" | "bands" | "write" | "done"
    ss_negstop,    \* how the image reader resolves a negative slice stop
    ss_nfiles,     \* len(fileList)
    ss_norms,      \* the per-file normalizations found so far
    ss_ext,        \* the CCD extension being stacked, 1..4
    ss_rowsplit,   \* rowsplit of the current extension
    ss_band,       \* index of the next row band
    ss_stack,      \* the row bands stacked so far for this extension
    ss_out,        \* rows of the flat written for each finished extension
    \* ---- combine_ccds / multiply_gain
    cc_pc,            \* "file" | "read" | "ccd" | "close" | "done"
    cc_skyGainCor,    \* kwargs 'sky_gain_correct'
    cc_inputGain,     \* kwargs 'input_gain': amplifier number -> gain
    cc_file,          \* index of the file being combined
    cc_ccdNum,        \* the CCD being combined, 1..4
    cc_refSkyCounts,  \* refSkyCounts
    cc_in,            \* the four amplifier images of the current CCD
    cc_out,           \* what multiply_gain returned and wrote for that CCD
    \* ---- extract_overscan / fit_overscan / subtract_overscan
    os_pc,         \* "extract" | "colbias" | "tail" | "rowbias" | "write" | "done" | "error"
    os_hdr,        \* the extension header: NAXIS1, NAXIS2, BIASSEC, DATASEC
    os_raw,        \* the raw amplifier array, a sequence of rows
    os_kw,         \* the caller's keyword arguments
    os_data,       \* data
    os_cols,       \* oscan_cols
    os_rows,       \* oscan_rows
    os_colbias,    \* colbias
    os_tailbias,   \* _colbias
    os_rowbias,    \* rowbias
    os_out,        \* the extension written to the output file
    \* ---- subtract_overscan over a file list, and the files it creates
    run_pc,        \* "start" | "open" | "ext" | "close" | "finish" | "returned" | "aborted"
    run_kw,        \* the caller's keyword arguments
    run_frames,    \* the frames of fileList: header and raw array of the extension
    run_i,         \* index of the frame being processed
    run_fs0,       \* the files as they were when the function was called
    run_fs,        \* the files: path -> [exists, units]
    run_coll,      \* len(self.files) of the column and of the row collection
    run_err,       \* the exception that left the function, or "none"
    \* ---- sextract_pass1
    sx_pc,         \* "frame" | "call" | "mask" | "done" | "aborted"
    sx_overwrite,  \* kwargs 'overwrite'
    sx_i,          \* index of the frame being processed
    sx_ccd,        \* the CCD whose mask is grown next
    sx_cat,        \* frame -> whether its catalog file exists
    sx_mask,       \* frame -> its object mask file
    sx_proc,       \* frame -> "notrun" | "running" | "ok" | "failed" | "notfound"
    sx_read,       \* frame -> the CCDs whose mask was read by the function
    sx_err,        \* the exception that left the function, or "none"
    \* ---- combine_ccds run by concurrent workers
    cw_pc,         \* worker -> "file" | "ccd" | "close" | "rename" | "done" | "aborted"
    cw_map,        \* worker -> whether 'output_file_map' is passed
    cw_ccd,        \* worker -> the CCD written next
    cw_handle,     \* worker -> the path at which its open output file is now
    cw_fs,         \* the files of the working directory: path -> [exists, units]
    cw_touched,    \* worker -> the paths it has read, written or renamed
    \* ---- _orient_mosaic
    om_pc,         \* "orient" | "header" | "done"
    om_ims,        \* ims: the four amplifier images
    om_ccdNum,     \* ccdNum
    om_origin,     \* origin
    om_outIm,      \* outIm
    om_hdr,        \* the section keywords written to hdr
    \* ---- subtract_sky
    sky_pc,        \* "fit" | "ccd" | "done"
    sky_hdr,       \* CCD -> the WCS keywords of its header
    sky_in,        \* CCD -> its image
    sky_p,         \* skyFit['skymodel']: the coefficients of the fitted polynomial
    sky_ccd,       \* the CCD processed next
    sky_out,       \* the CCDs written so far: data and SKYVAL
    \* ---- stack_bias_frames with check_dropped_rows
    bias_pc,       \* "check" | "stack" | "done" | "error"
    bias_cube,     \* biasCube: [row -> frame values]
    bias_mask,     \* its mask: [row -> set of masked frames]
    bias_kw,       \* the caller's keyword arguments
    bias_k,        \* the frame checked next
    bias_row1,     \* frame -> the first kept row found and the row1 masked up to
    bias_out,      \* the bias frame written
    \* ---- FileNameMap
    fn_pc,         \* "call" | "done"
    fn_map,        \* the map: newDir, newSuffix, strip_gz
    fn_in,         \* fileName, a sequence of characters
    fn_out,        \* the path returned
    \* ---- stack_flat_frames
    flat_pc,       \* "open" | "extn" | "done" | "error"
    flat_cube,     \* flatCube of the extension: [pixel -> frame values]
    flat_kw,       \* the caller's keyword arguments
    flat_out       \* the images written to the flat and to the variance file

stk_vars == <<stk_pc, imCube, stk_kw, stk_entry, stk_result>>
pf_vars == <<pf_pc, pf_nbin, pf_ccd, pf_cells, pf_X>>
ss_vars == <<ss_pc, ss_negstop, ss_nfiles, ss_norms, ss_ext, ss_rowsplit,
             ss_band, ss_stack, ss_out>>
cc_vars == <<cc_pc, cc_skyGainCor, cc_inputGain, cc_file, cc_ccdNum,
             cc_refSkyCounts, cc_in, cc_out>>
os_vars == <<os_pc, os_hdr, os_raw, os_kw, os_data, os_cols, os_rows,
             os_colbias, os_tailbias, os_rowbias, os_out>>
run_vars == <<run_pc, run_kw, run_frames, run_i, run_fs0, run_fs, run_coll,
              run_err>>
sx_vars == <<sx_pc, sx_overwrite, sx_i, sx_ccd, sx_cat, sx_mask, sx_proc,
             sx_read, sx_err>>
\* the stages that work on pixel arrays
core_vars == <<stk_vars, pf_vars, ss_vars, cc_vars, os_vars>>
\* the stages modelled at the level of files and processes
cw_vars == <<cw_pc, cw_map, cw_ccd, cw_handle, cw_fs, cw_touched>>
om_vars == <<om_pc, om_ims, om_ccdNum, om_origin, om_outIm, om_hdr>>
sky_vars == <<sky_pc, sky_hdr, sky_in, sky_p, sky_ccd, sky_out>>
bias_vars == <<bias_pc, bias_cube, bias_mask, bias_kw, bias_k, bias_row1,
               bias_out>>
fn_vars == <<fn_pc, fn_map, fn_in, fn_out>>
flat_vars == <<flat_pc, flat_cube, flat_kw, flat_out>>
io_vars == <<run_vars, sx_vars, cw_vars, om_vars, sky_vars, bias_vars,
             fn_vars,
             flat_vars>>
vars == <<core_vars, io_vars>>

(***************************************************************************)
(* Exact arithmetic                                                        *)
(***************************************************************************)
Abs(x) == IF x < 0 THEN -x ELSE x

RECURSIVE GCD(_, _)
GCD(a, b) == IF b = 0 THEN a ELSE GCD(b, a % b)

\* the fraction n/d (d # 0) in lowest terms with a positive denominator
Frac(n, d) ==
    LET g == GCD(Abs(n), Abs(d))
        s == IF d < 0 THEN -1 ELSE 1
    IN  <<(s * n) \div g, (s * d) \div g>>

FInt(n) == <<n, 1>>
FMul(a, b) == Frac(a[1] * b[1], a[2] * b[2])
FDiv(a, b) == Frac(a[1] * b[2], a[2] * b[1])
FAdd(a, b) == Frac(a[1] * b[2] + b[1] * a[2], a[2] * b[2])
FSub(a, b) == Frac(a[1] * b[2] - b[1] * a[2], a[2] * b[2])
FLess(a, b) == a[1] * b[2] < b[1] * a[2]

\* statement order: the value x of an earlier statement is computed before
\* the statements that follow it
Then(x, rest) == IF x = x THEN rest ELSE rest

\* the sum of the unmasked entries lo..hi of an integer vector, by halves
RECURSIVE SumRange(_, _, _, _)
SumRange(vals, msk, lo, hi) ==
    IF lo > hi THEN 0
    ELSE IF lo = hi THEN (IF lo \in msk THEN 0 ELSE vals[lo])
    ELSE LET mid == (lo + hi) \div 2
         IN  SumRange(vals, msk, lo, mid) + SumRange(vals, msk, mid + 1, hi)

\* the sum of the entries 1..k of an integer vector that are not masked
SumTo(vals, msk, k) == SumRange(vals, msk, 1, k)

\* the same for a vector of fractions
RECURSIVE FSumRange(_, _, _, _)
FSumRange(vals, msk, lo, hi) ==
    IF lo > hi THEN FInt(0)
    ELSE IF lo = hi THEN (IF lo \in msk THEN FInt(0) ELSE vals[lo])
    ELSE LET mid == (lo + hi) \div 2
         IN  FAdd(FSumRange(vals, msk, lo, mid), FSumRange(vals, msk, mid + 1, hi))

FSumTo(vals, msk, k) == FSumRange(vals, msk, 1, k)

\* the number of unmasked entries of a vector
Count(vals, msk) == Cardinality(DOMAIN vals \ msk)

\* the unmasked entries 1..k of a vector, in order
RECURSIVE CompressRange(_, _, _, _)
CompressRange(vals, msk, lo, hi) ==
    IF lo > hi THEN <<>>
    ELSE IF lo = hi THEN (IF lo \in msk THEN <<>> ELSE <<vals[lo]>>)
    ELSE LET mid == (lo + hi) \div 2
         IN  CompressRange(vals, msk, lo, mid) \o
             CompressRange(vals, msk, mid + 1, hi)
Compress(vals, msk, k) == CompressRange(vals, msk, 1, k)

\* kwargs.get(key, default): a keyword the caller did not pass is "absent"
KwGet(kw, key, default) == IF kw[key] = "absent" THEN default ELSE kw[key]
\* the same for the integer-valued keywords, where -1 stands for "not passed"
KwGetInt(kw, key, default) == IF kw[key] = -1 THEN default ELSE kw[key]

(***************************************************************************)
(* astropy.stats.sigma_clip(data, sig, iters, cenfunc=np.ma.mean,          *)
(* varfunc=np.var) along one axis, as every stage calls it: in each        *)
(* iteration a sample is masked when its squared deviation from the mean   *)
(* of the unmasked samples exceeds sig^2 times their variance.             *)
(* vals is the sequence of samples, msk the set of masked indices, and     *)
(* sig the fraction <<sigNum, sigDen>>.  With n unmasked samples of sum S, *)
(* (v - S/n)^2 > (sig^2/n) * Sum (v_j - S/n)^2 is, times n^3 sigDen^2,     *)
(* n (n v - S)^2 sigDen^2 > sigNum^2 Sum (n v_j - S)^2.                    *)
(***************************************************************************)
ClipOnce(vals, msk, sig) ==
    LET n == Count(vals, msk)
        S == SumTo(vals, msk, Len(vals))
        dev == [k \in DOMAIN vals |-> (n * vals[k] - S) * (n * vals[k] - S)]
        tot == SumTo(dev, msk, Len(vals))
    IN  Then(S, Then(dev, Then(tot,
            msk \cup {k \in DOMAIN vals \ msk :
                        n * dev[k] * sig[2] * sig[2] > sig[1] * sig[1] * tot})))

RECURSIVE sigma_clip(_, _, _, _)
sigma_clip(vals, msk, sig, iters) ==
    IF iters = 0 THEN msk
    ELSE LET clipped == ClipOnce(vals, msk, sig)
         IN  Then(clipped, sigma_clip(vals, clipped, sig, iters - 1))


(***************************************************************************)
(* Masked-array primitives (numpy.ma).  A masked vector is a sequence of   *)
(* values with the set of its masked indices.                              *)
(***************************************************************************)
\* MaskedArray.argmax: masked entries count as the lowest possible value and
\* the first index of the maximum is returned (the first index when every
\* entry is masked)
argmax(vals, msk) ==
    LET good == DOMAIN vals \ msk
    IN  IF good = {} THEN 1
        ELSE CHOOSE k \in good :
                /\ \A j \in good : vals[j] <= vals[k]
                /\ \A j \in good : j < k => vals[j] < vals[k]

\* MaskedArray.argmin: masked entries count as the highest possible value
argmin(vals, msk) ==
    LET good == DOMAIN vals \ msk
    IN  IF good = {} THEN 1
        ELSE CHOOSE k \in good :
                /\ \A j \in good : vals[k] <= vals[j]
                /\ \A j \in good : j < k => vals[k] < vals[j]

\* the r-th smallest (r = 1..Len) of a nonempty vector of fractions
FSortedAt(seq, r) ==
    LET k == CHOOSE k \in DOMAIN seq :
                 /\ Cardinality({j \in DOMAIN seq : FLess(seq[j], seq[k])}) < r
                 /\ r <= Cardinality({j \in DOMAIN seq : ~FLess(seq[k], seq[j])})
    IN  seq[k]

\* the median of a nonempty vector of fractions: the middle one, or the mean
\* of the two middle ones
FMedian(seq) ==
    LET n == Len(seq)
    IN  IF n % 2 = 1 THEN FSortedAt(seq, (n + 1) \div 2)
        ELSE FDiv(FAdd(FSortedAt(seq, n \div 2), FSortedAt(seq, n \div 2 + 1)),
                  FInt(2))

\* a possibly masked scalar: ok = FALSE is numpy.ma.masked
Masked == [ok |-> FALSE, v |-> FInt(0)]
Val(x) == [ok |-> TRUE, v |-> x]

\* the mean of the unmasked entries of an integer vector
MaMean(vals, msk) ==
    IF Count(vals, msk) = 0 THEN Masked
    ELSE Val(Frac(SumTo(vals, msk, Len(vals)), Count(vals, msk)))

\* np.ma.median of the unmasked entries of an integer vector
MaMedian(vals, msk) ==
    IF Count(vals, msk) = 0 THEN Masked
    ELSE Val(FMedian(Compress([k \in DOMAIN vals |-> FInt(vals[k])], msk,
                              Len(vals))))

\* variant: the mean of the squares, without subtracting the mean
MaVarFilled_Uncentred(vals, msk) ==
    LET n == Count(vals, msk)
        sq == [k \in DOMAIN vals |-> vals[k] * vals[k]]
    IN  IF n = 0 THEN FInt(0) ELSE Frac(SumTo(sq, msk, Len(vals)), n)

\* np.ma.var (ddof = 0) of the unmasked entries, .filled(0)
MaVarFilled(vals, msk) ==
    LET n == Count(vals, msk)
        S == SumTo(vals, msk, Len(vals))
        dev == [k \in DOMAIN vals |-> (n * vals[k] - S) * (n * vals[k] - S)]
    IN  IF n = 0 THEN FInt(0) ELSE Frac(SumTo(dev, msk, Len(vals)), n * n * n)

(***************************************************************************)
(* stack_image_cube.  The cube holds one image column: pixel p of frame k  *)
(* is cube[p][k].  The keyword arguments are a record in which "absent"    *)
(* (-1 for clip_iters) marks a keyword the caller did not pass; scale is   *)
(* the per-frame array of scale factors, <<>> when no scale is passed.     *)
(***************************************************************************)
\* the frames named anywhere in a 2-D index array idx: the statement
\* imcube[:,:,idx] = np.ma.masked masks, at every pixel, each of them
IndexedFrames(idx) == {idx[p] : p \in DOMAIN idx}

\* reject == 'minmax'
RejectMinMax(cube, mask) ==
    LET amax == [p \in DOMAIN cube |-> argmax(cube[p], mask[p])]
        mask1 == [p \in DOMAIN cube |-> mask[p] \cup IndexedFrames(amax)]
        amin == [p \in DOMAIN cube |-> argmin(cube[p], mask1[p])]
    IN  [p \in DOMAIN cube |-> mask1[p] \cup IndexedFrames(amin)]

\* reject == 'sigma_clip': sigma_clip(imcube, axis=-1, **clipargs)
RejectSigmaClip(cube, mask, sig, iters) ==
    [p \in DOMAIN cube |-> sigma_clip(cube[p], mask[p], sig, iters)]

ClipSig == <<5, 2>>     \* clip_sig = 2.5

ScaleCube(cube, scale) ==
    IF scale = <<>> THEN cube
    ELSE [p \in DOMAIN cube |-> [k \in DOMAIN cube[p] |-> cube[p][k] * scale[k]]]

StackError == [err |-> "ValueError", mask |-> <<>>, stack |-> <<>>, extras |-> <<>>]

\* retScales = kwargs.get('ret_scales',False): a keyword the caller did not
\* pass is not a field of kw; extras.append(scales) names a variable that
\* is bound only when a scale was given
stack_image_cube(cube0, mask0, kw) ==
    LET reject == KwGet(kw, "reject", "sigma_clip")
        method == KwGet(kw, "method", "mean")
        iters == KwGetInt(kw, "clip_iters", 2)
        cube == ScaleCube(cube0, kw.scale)
        mask == IF reject = "sigma_clip"
                    THEN RejectSigmaClip(cube, mask0, ClipSig, iters)
                ELSE IF reject = "minmax" THEN RejectMinMax(cube, mask0)
                ELSE mask0
        stack == [p \in DOMAIN cube |->
                    IF method = "mean" THEN MaMean(cube[p], mask[p])
                    ELSE MaMedian(cube[p], mask[p])]
        var == [p \in DOMAIN cube |-> MaVarFilled(cube[p], mask[p])]
        retScales == "ret_scales" \in DOMAIN kw /\ kw.ret_scales
    IN  IF reject \notin {"sigma_clip", "minmax", "None"} THEN StackError
        ELSE IF method \notin {"mean", "median"} THEN StackError
        ELSE IF retScales /\ kw.scale = <<>>
            THEN [StackError EXCEPT !.err = "UnboundLocalError"]
        ELSE [err |-> "none", mask |-> mask, stack |-> stack,
              extras |->
                  (IF retScales
                       THEN <<[kind |-> "scales", val |-> kw.scale]>> ELSE <<>>)
                  \o (IF kw.with_variance
                         THEN <<[kind |-> "var", val |-> var]>> ELSE <<>>)]

(***************************************************************************)
(* stack_bias_frames: the bias stack of one extension                      *)
(***************************************************************************)
\* kwargs.setdefault('method','clipped_mean'); kwargs.setdefault('clip_iters',1)
BiasKwargs(kw) ==
    [kw EXCEPT !.method = IF @ = "absent" THEN "clipped_mean" ELSE @,
               !.clip_iters = IF @ = -1 THEN 1 ELSE @]

\* the dropped-row repair: a fully masked pixel takes the median of the
\* stack along the column
FillDroppedRows(stack) ==
    LET bad == {p \in DOMAIN stack : ~stack[p].ok}
        v == Compress([p \in DOMAIN stack |-> stack[p].v], bad, Len(stack))
        rowMedian == Val(FMedian(v))
    IN  IF bad = {} \/ bad = DOMAIN stack THEN stack
        ELSE [p \in DOMAIN stack |->
                IF stack[p].ok THEN stack[p] ELSE rowMedian]

stack_bias_frames(cube, mask, kw) ==
    LET r == stack_image_cube(cube, mask, BiasKwargs(kw))
    IN  IF r.err # "none" THEN r
        ELSE [r EXCEPT !.stack = FillDroppedRows(r.stack)]


(***************************************************************************)
(* Inputs of the stacking runs                                             *)
(***************************************************************************)
NPix == 2          \* pixels of the modelled image column
MaxVal == 2        \* pixel values 1..MaxVal of the three-frame cubes

Pixels == 1..NPix
NoMask(cube) == [p \in DOMAIN cube |-> {}]

\* every cube of three frames
ThreeFrameCubes == [Pixels -> [1..3 -> 1..MaxVal]]

\* bias cubes of five frames, in units of 100 counts: every pixel at 5 (500
\* counts) but for at most one pixel of one frame at 100 (10000 counts)
BiasLevel == FInt(5)
FlatBias == [p \in Pixels |-> [k \in 1..5 |-> 5]]
BiasCubes ==
    {FlatBias} \cup
    {[FlatBias EXCEPT ![p][k] = 100] : p \in Pixels, k \in 1..5}

StackKwargs ==
    [reject : {"absent", "minmax", "None"}, method : {"absent", "median"},
     clip_iters : {-1}, scale : {<<>>}, with_variance : BOOLEAN]

StackIdle ==
    /\ stk_pc = "idle" /\ imCube = <<>> /\ stk_kw = <<>>
    /\ stk_entry = "none" /\ stk_result = <<>>

StackInit ==
    /\ stk_pc = "ready"
    /\ imCube \in ThreeFrameCubes \cup BiasCubes
    /\ stk_kw \in StackKwargs
    /\ stk_entry = "none"
    /\ stk_result = <<>>

\* a direct call stack_image_cube(imCube, **kwargs)
StackImageCube ==
    /\ stk_pc = "ready"
    /\ stk_result' = stack_image_cube(imCube, NoMask(imCube), stk_kw)
    /\ stk_entry' = "stack_image_cube"
    /\ stk_pc' = "done"
    /\ UNCHANGED <<imCube, stk_kw>>
    /\ UNCHANGED <<pf_vars, ss_vars, cc_vars, os_vars, io_vars>>

\* stack_bias_frames on the frames of imCube, for one extension
StackBiasFrames ==
    /\ stk_pc = "ready"
    /\ stk_result' = stack_bias_frames(imCube, NoMask(imCube), stk_kw)
    /\ stk_entry' = "stack_bias_frames"
    /\ stk_pc' = "done"
    /\ UNCHANGED <<imCube, stk_kw>>
    /\ UNCHANGED <<pf_vars, ss_vars, cc_vars, os_vars, io_vars>>

StackNext == StackImageCube \/ StackBiasFrames


(***************************************************************************)
(* bok_polyfit: which rebinned cells of each CCD enter the sky fit.        *)
(* bok_rebin turns a CCD image into cells of nbin x nbin pixels (the last  *)
(* axis of the rebinned array); a CCD is modelled as NCells cells, each a  *)
(* sequence of nbin*nbin pixel values with the set of its masked pixels.   *)
(***************************************************************************)
NCells == 2
Nbins == {2, 3}          \* values of the nbin argument
CellPix(nbin) == 1..(nbin * nbin)

\* the rebinned image flattened: pixel i of cell c is sample (c-1)*nbin^2 + i
FlatIndex(nbin, c, i) == (c - 1) * nbin * nbin + i
FlatVals(nbin, cells) ==
    [j \in 1..(NCells * nbin * nbin) |->
        cells[((j - 1) \div (nbin * nbin)) + 1].vals[((j - 1) % (nbin * nbin)) + 1]]
FlatMask(nbin, cells) ==
    UNION {{FlatIndex(nbin, c, i) : i \in cells[c].mask} : c \in 1..NCells}

\* clippedIm = sigma_clip(binnedIm[ccd]['im'], iters=2, sig=2.5, cenfunc=np.ma.mean):
\* no axis, so one mean and variance for the whole CCD
ClippedMask(nbin, cells) ==
    sigma_clip(FlatVals(nbin, cells), FlatMask(nbin, cells), ClipSig, 2)

\* nbad = clippedIm.mask.sum(axis=-1), per cell
nbad(nbin, clipped) ==
    [c \in 1..NCells |->
        Cardinality({i \in CellPix(nbin) : FlatIndex(nbin, c, i) \in clipped})]

\* too_few_pixels = nbad < nbin*2//3
too_few_pixels(nbin, n) == n < (nbin * 2) \div 3

\* ii = np.where(~too_few_pixels): the cells whose x, y and mean are appended
\* to the point cloud of the fit
KeptCells(nbin, bad) ==
    {c \in 1..NCells : ~too_few_pixels(nbin, bad[c])}

\* the cells of one CCD as read: flat sky of level 1, possibly one bright
\* pixel in the first cell, and the first m pixels of a cell masked by the
\* object mask (any number in the first cell, none or all in the others)
CellInput(nbin, b, m) ==
    [vals |-> [i \in CellPix(nbin) |-> IF i = b THEN 9 ELSE 1], mask |-> 1..m]
CCDInputs(nbin) ==
    {[c \in 1..NCells |->
        IF c = 1 THEN CellInput(nbin, b, m) ELSE CellInput(nbin, 0, f[c])] :
        b \in {0, nbin * nbin}, m \in 0..(nbin * nbin),
        f \in [1..NCells -> {0, nbin * nbin}]}

PolyfitIdle ==
    /\ pf_pc = "idle" /\ pf_nbin = 0 /\ pf_ccd = 0 /\ pf_cells = <<>>
    /\ pf_X = 0

PolyfitInit ==
    /\ pf_pc = "ccds"
    /\ pf_nbin \in Nbins
    /\ pf_ccd = 1
    /\ pf_cells = <<>>
    /\ pf_X = 0

\* one pass of the loop over CCD1..CCD4
PolyfitCCD ==
    /\ pf_pc = "ccds"
    /\ \E cells \in CCDInputs(pf_nbin) :
        LET bad == nbad(pf_nbin, ClippedMask(pf_nbin, cells))
            kept == KeptCells(pf_nbin, bad)
        IN  /\ pf_cells' = [ccd |-> pf_ccd, cells |-> cells, nbad |-> bad,
                            kept |-> kept]
            /\ pf_X' = pf_X + Cardinality(kept)
    /\ pf_ccd' = pf_ccd + 1
    /\ pf_pc' = IF pf_ccd = 4 THEN "fit" ELSE "ccds"
    /\ UNCHANGED pf_nbin
    /\ UNCHANGED <<stk_vars, ss_vars, cc_vars, os_vars, io_vars>>

\* the least-squares fit of the concatenated point cloud
PolyfitFit ==
    /\ pf_pc = "fit"
    /\ pf_pc' = "done"
    /\ UNCHANGED <<pf_nbin, pf_ccd, pf_cells, pf_X>>
    /\ UNCHANGED <<stk_vars, ss_vars, cc_vars, os_vars, io_vars>>

PolyfitNext == PolyfitCCD \/ PolyfitFit


(***************************************************************************)
(* make_supersky_flats: the row bands of the stacked flat                  *)
(***************************************************************************)
nsplit == 10
shape0 == 4032           \* shape = (4032,4096): the rows of a CCD image
MaxFiles == 2            \* the longest file list modelled

\* np.arange(0, stop, step) as a sequence
arange0(stop, step) == [k \in 1..((stop + step - 1) \div step) |-> (k - 1) * step]

\* rowsplit = np.arange(0,shape[0],shape[0]//nsplit); rowsplit[-1] = -1
rowsplit ==
    LET a == arange0(shape0, shape0 \div nsplit)
    IN  [a EXCEPT ![Len(a)] = -1]

\* zip(rowsplit[:-1], rowsplit[1:])
RowBands(rs) == [b \in 1..(Len(rs) - 1) |-> <<rs[b], rs[b + 1]>>]

\* build_cube_subset reads fitsio.FITS(f)[extn][i1:i2,:].  The rows a slice
\* with a negative stop selects are decided by the image reader: counted from
\* the end as a Python slice does ("python": stop -1 leaves the last row out),
\* or read through to the last row ("to_end").  Both are modelled.
NegStopRules == {"python", "to_end"}
SliceRows(rule, rows, dim) ==
    LET i1 == rows[1]
        i2 == rows[2]
        stop == IF i2 >= 0 THEN (IF i2 > dim THEN dim ELSE i2)
                ELSE IF rule = "python" THEN dim + i2 ELSE dim
    IN  <<i1, stop>>

build_cube_subset(rule, rows) ==
    LET r == SliceRows(rule, rows, shape0)
    IN  [rows |-> rows, first |-> r[1], stop |-> r[2], nrows |-> r[2] - r[1]]

\* norms[i] = 1/normpix.mean(): the sky level of file i, from a small set
SkyLevels == {1, 2}

SuperskyIdle ==
    /\ ss_pc = "idle" /\ ss_negstop = "none" /\ ss_nfiles = 0
    /\ ss_norms = <<>> /\ ss_ext = 0 /\ ss_rowsplit = <<>> /\ ss_band = 0
    /\ ss_stack = <<>> /\ ss_out = <<>>

SuperskyInit ==
    /\ ss_pc = "norms"
    /\ ss_negstop \in NegStopRules
    /\ ss_nfiles \in 1..MaxFiles
    /\ ss_norms = <<>>
    /\ ss_ext = 1
    /\ ss_rowsplit = <<>>
    /\ ss_band = 0
    /\ ss_stack = <<>>
    /\ ss_out = <<>>

\* first loop: one normalization per file
SuperskyNorm ==
    /\ ss_pc = "norms"
    /\ \E sky \in SkyLevels : ss_norms' = Append(ss_norms, Frac(1, sky))
    /\ ss_pc' = IF Len(ss_norms) + 1 = ss_nfiles THEN "split" ELSE "norms"
    /\ UNCHANGED <<ss_negstop, ss_nfiles, ss_ext, ss_rowsplit, ss_band,
                   ss_stack, ss_out>>
    /\ UNCHANGED <<stk_vars, pf_vars, cc_vars, os_vars, io_vars>>

\* for extn in extensions: divide the array into row bands
SuperskySplit ==
    /\ ss_pc = "split"
    /\ ss_rowsplit' = rowsplit
    /\ ss_band' = 1
    /\ ss_stack' = <<>>
    /\ ss_pc' = "bands"
    /\ UNCHANGED <<ss_negstop, ss_nfiles, ss_norms, ss_ext, ss_out>>
    /\ UNCHANGED <<stk_vars, pf_vars, cc_vars, os_vars, io_vars>>

\* for rows in zip(...): read the band of every file and stack it
SuperskyBand ==
    /\ ss_pc = "bands"
    /\ ss_stack' = Append(ss_stack,
                          build_cube_subset(ss_negstop,
                                            RowBands(ss_rowsplit)[ss_band]))
    /\ ss_band' = ss_band + 1
    /\ ss_pc' = IF ss_band = Len(ss_rowsplit) - 1 THEN "write" ELSE "bands"
    /\ UNCHANGED <<ss_negstop, ss_nfiles, ss_norms, ss_ext, ss_rowsplit, ss_out>>
    /\ UNCHANGED <<stk_vars, pf_vars, cc_vars, os_vars, io_vars>>

\* stack = np.vstack(stack); fits.write(stack, extname=extn)
SuperskyWrite ==
    /\ ss_pc = "write"
    /\ ss_out' = Append(ss_out,
                        SumTo([b \in DOMAIN ss_stack |-> ss_stack[b].nrows],
                              {}, Len(ss_stack)))
    /\ ss_ext' = ss_ext + 1
    /\ ss_pc' = IF ss_ext = 4 THEN "done" ELSE "split"
    /\ UNCHANGED <<ss_negstop, ss_nfiles, ss_norms, ss_rowsplit, ss_band,
                   ss_stack>>
    /\ UNCHANGED <<stk_vars, pf_vars, cc_vars, os_vars, io_vars>>

SuperskyNext == SuperskyNorm \/ SuperskySplit \/ SuperskyBand \/ SuperskyWrite


(***************************************************************************)
(* multiply_gain and the CCD loop of combine_ccds.                         *)
(* Amplifier IMn is the number n.  An amplifier image is two pixels: a, in *)
(* the region that balances the amplifiers of a CCD (ampCorStatReg), and   *)
(* c, in the region that balances the CCDs (ccdCorStatReg); the clipped    *)
(* mean of a one-level region is that level.                               *)
(***************************************************************************)
None == [some |-> FALSE, v |-> FInt(0)]
Some(x) == [some |-> TRUE, v |-> x]

\* the order of the amplifiers in the FITS extensions, and the nominal gain
\* of each extension in that order, in hundredths (1.24556017 is 125)
ampOrder == <<4, 3, 2, 1, 8, 7, 6, 5, 9, 10, 11, 12, 13, 14, 15, 16>>
nominal_gain ==
    <<125, 129, 132, 128, 145, 153, 143, 151, 134, 139, 138, 139, 143, 139,
      140, 145>>

\* extns = ['IM%d' % ampNum for ampNum in range(1,17)], by amplifier number
extns == [n \in 1..16 |-> n]

\* { 'IM%d'%ampNum:g for ampNum,g in zip(ampOrder,nominal_gain) }: the
\* place in nominal_gain of the gain kept for an amplifier is the last one
\* at which ampOrder names it
DefaultGainIndex(amp) ==
    CHOOSE i \in DOMAIN ampOrder :
        /\ ampOrder[i] = amp
        /\ \A j \in DOMAIN ampOrder : ampOrder[j] = amp => j <= i
DefaultGainKeys == {ampOrder[i] : i \in DOMAIN ampOrder}
DefaultInputGain ==
    [amp \in DefaultGainKeys |-> Frac(nominal_gain[DefaultGainIndex(amp)], 100)]

bokCenterAmps == <<4, 7, 10, 13>>
refAmps == <<2, 8, 11, 16>>

\* variant: every fourth amplifier goes to the same CCD
extGroup_Interleaved(ccdNum) == [i \in 1..4 |-> extns[ccdNum + 4 * (i - 1)]]

\* np.hsplit(extns,4)[ccdNum-1]
extGroup(ccdNum) == [i \in 1..4 |-> extns[4 * (ccdNum - 1) + i]]

Pad2(n) == IF n < 10 THEN "0" \o ToString(n) ELSE ToString(n)
ABCD == <<"A", "B", "C", "D">>
\* '%s%02d%s%d' % (name, chNum, 'ABCD'[i], num)
AmpKey(name, chNum, i, num) == name \o Pad2(chNum) \o ABCD[i] \o ToString(num)

\* hdr[key] = value
SetKey(hdr, key, value) ==
    [k \in DOMAIN hdr \cup {key} |-> IF k = key THEN value ELSE hdr[k]]

RECURSIVE SetAmpKeys(_, _, _, _, _, _)
SetAmpKeys(hdr, name, num, grp, vals, i) ==
    IF i > 4 THEN hdr
    ELSE SetAmpKeys(SetKey(hdr, AmpKey(name, grp[i], i, num), vals[i]),
                    name, num, grp, vals, i + 1)

\* sky_est(sigma_clip(im[y1:y2,x1:x2])) in the two regions
SkyAmpReg(im) == FInt(im.a)
SkyCcdReg(im) == FInt(im.c)

\* im*g
ScaleIm(im, g) == [a |-> FMul(FInt(im.a), g), c |-> FMul(FInt(im.c), g)]

\* refAmpIndex = np.where(extGroup == refAmp)[0][0]
IndexIn(grp, amp) == CHOOSE i \in 1..4 : grp[i] = amp
\* centerAmp = (set(extGroup) & set(bokCenterAmps)).pop()
CenterAmp(grp) ==
    CHOOSE n \in {grp[i] : i \in 1..4} : \E j \in 1..4 : bokCenterAmps[j] = n

\* variant: the first amplifier of the group is taken as the reference
IntraCcdGain_FirstAmp(skyCountsAmp, refAmpIndex) ==
    [i \in 1..4 |-> FDiv(skyCountsAmp[1], skyCountsAmp[i])]

\* gain2 = skyCounts[refAmpIndex] / skyCounts: the intra-CCD factors
IntraCcdGain(skyCountsAmp, refAmpIndex) ==
    [i \in 1..4 |-> FDiv(skyCountsAmp[refAmpIndex], skyCountsAmp[i])]

\* gain3: the inter-CCD factor
InterCcdGain(skyIn, skyCounts) ==
    IF ~skyIn.some THEN FInt(1) ELSE FDiv(skyIn.v, skyCounts)

\* variant: gain *= gain2, the inter-CCD factor left out
ComposeGain_NoGain3(gain, gain2, gain3) ==
    [i \in 1..4 |-> FMul(gain[i], gain2[i])]

\* gain *= gain2 * gain3
ComposeGain(gain, gain2, gain3) ==
    [i \in 1..4 |-> FMul(gain[i], FMul(gain2[i], gain3))]

\* the branch "if skyGainCor:" with the multiplication that follows it
SkyGainBranch(ampIms, grp, hdr, gain, skyIn, refAmp) ==
    LET rawSky == [i \in 1..4 |-> SkyAmpReg(ampIms[i])]
        skyCountsAmp == [i \in 1..4 |-> FMul(rawSky[i], gain[i])]
        refAmpIndex == IndexIn(grp, refAmp)
        gain2 == IntraCcdGain(skyCountsAmp, refAmpIndex)
        ci == IndexIn(grp, CenterAmp(grp))
        skyCounts == FMul(SkyCcdReg(ampIms[ci]), FMul(gain[ci], gain2[ci]))
        gain3 == InterCcdGain(skyIn, skyCounts)
        hdr1 == SetAmpKeys(hdr, "SKYC", 1, grp, rawSky, 1)
        hdr2 == SetAmpKeys(hdr1, "GAIN", 1, grp, gain, 1)
        hdr3 == SetAmpKeys(hdr2, "GAIN", 2, grp, gain2, 1)
        hdr4 == SetKey(hdr3, "CCDGAIN3", gain3)
        gainCor == ComposeGain(gain, gain2, gain3)
    IN  [ampIms |-> [i \in 1..4 |-> ScaleIm(ampIms[i], gainCor[i])],
         skyCounts |-> Some(skyCounts), hdr |-> hdr4, gain |-> gainCor]

\* the branch "else:" with the multiplication that follows it
NominalGainBranch(ampIms, grp, hdr, gain) ==
    [ampIms |-> [i \in 1..4 |-> ScaleIm(ampIms[i], gain[i])],
     skyCounts |-> None,
     hdr |-> SetAmpKeys(hdr, "GAIN", 1, grp, gain, 1), gain |-> gain]

\* variant: the sky correction runs whatever skyGainCor says
multiply_gain_AlwaysSky(ampIms, grp, hdr, skyGainCor, inputGain, skyIn, refAmp) ==
    SkyGainBranch(ampIms, grp, hdr, [i \in 1..4 |-> inputGain[grp[i]]],
                  skyIn, refAmp)

multiply_gain(ampIms, grp, hdr, skyGainCor, inputGain, skyIn, refAmp) ==
    LET gain == [i \in 1..4 |-> inputGain[grp[i]]]
    IN  IF skyGainCor
        THEN SkyGainBranch(ampIms, grp, hdr, gain, skyIn, refAmp)
        ELSE NominalGainBranch(ampIms, grp, hdr, gain)

\* variant: every CCD replaces the reference
NextRefSkyCounts_EveryCcd(ccdNum, refSkyCounts, skyCounts) == skyCounts

\* the reference handed from one CCD to the next:
\* if ccdNum == 1: refSkyCounts = skyCounts
NextRefSkyCounts(ccdNum, refSkyCounts, skyCounts) ==
    IF ccdNum = 1 THEN skyCounts ELSE refSkyCounts

\* ---- inputs
CcFiles == 2             \* len(fileList)
\* the header of the centre amplifier as read from the input file
InHdr == [NAXIS |-> FInt(2)]
\* input_gain tables
GainTables ==
    {[n \in 1..16 |-> FInt(1)],
     [n \in 1..16 |-> IF n % 2 = 1 THEN FInt(1) ELSE FInt(2)]}
\* the four images of a CCD
AmpImages == [1..4 -> [a : SkyLevels, c : SkyLevels]]
CcdImages(ccdNum) ==
    {ims \in AmpImages :
        \A i \in 1..4 :
            extGroup(ccdNum)[i] # bokCenterAmps[ccdNum] => ims[i].c = ims[i].a}

\* cc_out before multiply_gain has run on the current CCD
NoOut == [ccdNum |-> 0]

CombineIdle ==
    /\ cc_pc = "idle" /\ cc_skyGainCor = FALSE /\ cc_inputGain = <<>>
    /\ cc_file = 0 /\ cc_ccdNum = 0 /\ cc_refSkyCounts = None
    /\ cc_in = <<>> /\ cc_out = NoOut

CombineInit ==
    /\ cc_pc = "file"
    /\ cc_skyGainCor \in BOOLEAN
    /\ cc_inputGain \in GainTables \cup {DefaultInputGain}
    /\ cc_file = 1
    /\ cc_ccdNum = 0
    /\ cc_refSkyCounts = None
    /\ cc_in = <<>>
    /\ cc_out = NoOut

\* for f in fileList: open the files, write the primary header,
\* refSkyCounts = None
CombineOpenFile ==
    /\ cc_pc = "file"
    /\ cc_refSkyCounts' = None
    /\ cc_ccdNum' = 1
    /\ cc_in' = <<>>
    /\ cc_out' = NoOut
    /\ cc_pc' = "read"
    /\ UNCHANGED <<cc_skyGainCor, cc_inputGain, cc_file>>
    /\ UNCHANGED <<stk_vars, pf_vars, ss_vars, os_vars, io_vars>>

\* the amplifier images of the next CCD, as they are in the file
CombineRead ==
    /\ cc_pc = "read"
    /\ cc_in' \in CcdImages(cc_ccdNum)
    /\ cc_out' = NoOut
    /\ cc_pc' = "ccd"
    /\ UNCHANGED <<cc_skyGainCor, cc_inputGain, cc_file, cc_ccdNum,
                   cc_refSkyCounts>>
    /\ UNCHANGED <<stk_vars, pf_vars, ss_vars, os_vars, io_vars>>

\* the body of the loop over the CCDs: multiply_gain, keep the reference,
\* write the CCD
CombineCCD ==
    /\ cc_pc = "ccd"
    /\ LET r == multiply_gain(cc_in, extGroup(cc_ccdNum), InHdr, cc_skyGainCor,
                              cc_inputGain, cc_refSkyCounts, refAmps[cc_ccdNum])
       IN  /\ cc_out' = [ccdNum |-> cc_ccdNum, skyIn |-> cc_refSkyCounts,
                         skyCounts |-> r.skyCounts, hdr |-> r.hdr,
                         ampIms |-> r.ampIms, gain |-> r.gain]
           /\ cc_refSkyCounts' =
                NextRefSkyCounts(cc_ccdNum, cc_refSkyCounts, r.skyCounts)
    /\ cc_ccdNum' = cc_ccdNum + 1
    /\ cc_pc' = IF cc_ccdNum = 4 THEN "close" ELSE "read"
    /\ UNCHANGED <<cc_skyGainCor, cc_inputGain, cc_file, cc_in>>
    /\ UNCHANGED <<stk_vars, pf_vars, ss_vars, os_vars, io_vars>>

\* outFits.close() and the move to the next file
CombineClose ==
    /\ cc_pc = "close"
    /\ cc_file' = cc_file + 1
    /\ cc_pc' = IF cc_file = CcFiles THEN "done" ELSE "file"
    /\ UNCHANGED <<cc_skyGainCor, cc_inputGain, cc_ccdNum, cc_refSkyCounts,
                   cc_in, cc_out>>
    /\ UNCHANGED <<stk_vars, pf_vars, ss_vars, os_vars, io_vars>>

CombineNext == CombineOpenFile \/ CombineRead \/ CombineCCD \/ CombineClose


(***************************************************************************)
(* Overscan: _convertfitsreg, extract_overscan, fit_overscan and the       *)
(* per-extension body of subtract_overscan.  A 2-D array is a sequence of  *)
(* rows, each a sequence of fractions.                                     *)
(***************************************************************************)
\* arr[y1:y2, x1:x2] with 0-indexed half-open bounds
Slice2D(arr, y1, y2, x1, x2) ==
    [r \in 1..(y2 - y1) |-> [c \in 1..(x2 - x1) |-> arr[y1 + r][x1 + c]]]

NRowsOf(arr) == Len(arr)
NColsOf(arr) == IF Len(arr) = 0 THEN 0 ELSE Len(arr[1])

Transpose(arr) ==
    [c \in 1..NColsOf(arr) |-> [r \in 1..NRowsOf(arr) |-> arr[r][c]]]

\* a region '[x1:x2,y1:y2]' is the tuple of its four numbers; the result is
\* (x1-1, x2, y1-1, y2): FITS region indices are 1-indexed
_convertfitsreg(regstr) ==
    <<regstr[1] - 1, regstr[2], regstr[3] - 1, regstr[4]>>

\* the test that decides whether overscan rows are extracted
HasOverscanRows(naxis2, y2) == naxis2 > y2 + 1

NoRows == [some |-> FALSE, arr |-> <<>>]

extract_overscan(raw, hdr) ==
    LET b == _convertfitsreg(hdr.BIASSEC)
        d == _convertfitsreg(hdr.DATASEC)
    IN  [data |-> Slice2D(raw, d[3], d[4], d[1], d[2]),
         overscan_cols |-> Slice2D(raw, b[3], b[4], b[1], b[2]),
         overscan_rows |->
            IF HasOverscanRows(hdr.NAXIS2, d[4])
                THEN [some |-> TRUE,
                      arr |-> Slice2D(raw, d[4], NRowsOf(raw), 0, NColsOf(raw))]
                ELSE NoRows]

\* the least common multiple of the denominators lo..hi of a vector of
\* fractions, by halves
RECURSIVE LCMRange(_, _, _)
LCMRange(seq, lo, hi) ==
    IF lo > hi THEN 1
    ELSE IF lo = hi THEN seq[lo][2]
    ELSE LET mid == (lo + hi) \div 2
             l == LCMRange(seq, lo, mid)
             h == LCMRange(seq, mid + 1, hi)
         IN  (l * h) \div GCD(l, h)

LCMDen(seq, k) == LCMRange(seq, 1, k)

\* the fractions of a vector over their common denominator: the numerators
FracsToInts(seq) ==
    LET L == LCMDen(seq, Len(seq))
    IN  [k \in DOMAIN seq |-> seq[k][1] * (L \div seq[k][2])]

\* mask_at = [0,1,2,-1] on a sample axis of length n
MaskAt(n) == {1, 2, 3, n}

FitError(e) == [err |-> e, fit |-> <<>>]

\* the unmasked samples of the first k rows of a strip, row after row
RECURSIVE FlattenGood(_, _, _)
FlattenGood(arr, mask, k) ==
    IF k = 0 THEN <<>>
    ELSE FlattenGood(arr, mask, k - 1) \o Compress(arr[k], mask[k], Len(arr[k]))

\* method = kwargs.get('method','mean'): the fit fit_overscan applies
FitMethod(kw) == KwGet(kw, "method", "mean")

fit_overscan(overscan0, kw, along) ==
    LET overscan == IF along = "rows" THEN Transpose(overscan0) ELSE overscan0
        npix == NRowsOf(overscan)
        nsamp == NColsOf(overscan)
        reject == KwGet(kw, "reject", "sigma_clip")
        method == FitMethod(kw)
        iters == KwGetInt(kw, "clip_iters", 2)
        ints == [r \in 1..npix |-> FracsToInts(overscan[r])]
        mask0 == [r \in 1..npix |-> MaskAt(nsamp)]
        mask == IF reject = "sigma_clip"
                    THEN [r \in 1..npix |-> sigma_clip(ints[r], mask0[r], ClipSig, iters)]
                ELSE IF reject = "minmax" THEN RejectMinMax(ints, mask0)
                ELSE mask0
        rowsum == [r \in 1..npix |->
                     Frac(SumTo(ints[r], mask[r], nsamp), LCMDen(overscan[r], nsamp))]
        rowcnt == [r \in 1..npix |-> Count(overscan[r], mask[r])]
        rowmean == [r \in 1..npix |->
                      IF rowcnt[r] = 0 THEN Masked
                      ELSE Val(FDiv(rowsum[r], FInt(rowcnt[r])))]
        ngood == SumTo(rowcnt, {}, npix)
        good == FlattenGood(overscan, mask, npix)
        allmean == IF ngood = 0 THEN Masked
                   ELSE Val(FDiv(FSumTo(rowsum, {}, npix), FInt(ngood)))
        allmedian == IF ngood = 0 THEN Masked ELSE Val(FMedian(good))
    IN  IF nsamp < 3 THEN FitError("IndexError")
        ELSE Then(overscan, Then(ints, Then(mask, Then(rowsum,
            IF method = "mean"
                THEN [err |-> "none", fit |-> rowmean]
            ELSE IF method = "mean_value"
                THEN [err |-> "none", fit |-> [r \in 1..npix |-> allmean]]
            ELSE IF method = "median_value"
                THEN Then(good,
                          [err |-> "none", fit |-> [r \in 1..npix |-> allmedian]])
            ELSE FitError("ValueError")))))

\* x - m for a possibly masked m (no strip modelled here yields a masked fit)
SubM(x, m) == IF m.ok THEN FSub(x, m.v) ELSE x

\* arr - bias[:,np.newaxis]
SubPerRow(arr, bias) ==
    [r \in 1..NRowsOf(arr) |-> [c \in 1..NColsOf(arr) |-> SubM(arr[r][c], bias[r])]]
\* arr - bias[np.newaxis,:arr.shape[1]]
SubPerCol(arr, bias) ==
    [r \in 1..NRowsOf(arr) |-> [c \in 1..NColsOf(arr) |-> SubM(arr[r][c], bias[c])]]

TailCols == 20           \* the hardcoded width of the tail of the row strip
\* oscan_rows[:,-20:] and oscan_rows[:,:-20]
StripTail(arr) ==
    LET n == NColsOf(arr)
        k == IF n > TailCols THEN n - TailCols ELSE 0
    IN  Slice2D(arr, 0, NRowsOf(arr), k, n)
StripHead(arr) ==
    LET n == NColsOf(arr)
        k == IF n > TailCols THEN n - TailCols ELSE 0
    IN  Slice2D(arr, 0, NRowsOf(arr), 0, k)

\* 'method=%s' % kwargs.get('method','default')
OscanSubCard(kw) == "method=" \o KwGet(kw, "method", "default")

\* variant: the tail fit is not subtracted from the row strip
CorrectedStrip_Uncorrected(rows, tailfit) == StripHead(rows)

\* oscan_rows[:,:-20] - _colbias[:,np.newaxis]: the row strip the
\* row-direction fit is made on
CorrectedStrip(rows, tailfit) == SubPerRow(StripHead(rows), tailfit)

\* ---- inputs: a raw amplifier of OsW x OsH data pixels, TailCols overscan
\* columns right of them and E rows below
OsW == 2
OsH == 2
StripRows == {0, 1, 2, 5, 6}

\* the data section begins dx columns into the array
RawHeader(E, dx) ==
    [NAXIS1 |-> OsW + TailCols, NAXIS2 |-> OsH + E,
     BIASSEC |-> <<OsW + 1, OsW + TailCols, 1, OsH>>,
     DATASEC |-> <<1 + dx, OsW, 1, OsH>>]

\* data pixels of distinct values; an overscan column strip of level 10 with
\* a ramp along the rows and possibly one outlier; a row strip whose level
\* varies along the columns (cramp) and along its rows (tramp)
RawArray(E, ramp, outl, tramp, cramp) ==
    [r \in 1..(OsH + E) |-> [c \in 1..(OsW + TailCols) |->
        FInt(IF r <= OsH
             THEN (IF c <= OsW THEN 50 + 10 * r + c
                   ELSE IF outl /\ r = 1 /\ c = OsW + 5 THEN 90
                   ELSE 10 + (r - 1) * ramp)
             ELSE (IF c <= OsW THEN 6 + c * cramp + (r - OsH) * tramp
                   ELSE 4 + (r - OsH) * tramp))]]

\* a synthetic raw amplifier: every pixel of the data section at d, every
\* other pixel (the overscan columns and the rows below the data) at v
OverscanValue == 100
DataValue == 5000
FlatRaw(E, dx) ==
    [r \in 1..(OsH + E) |-> [c \in 1..(OsW + TailCols) |->
        FInt(IF r <= OsH /\ c > dx /\ c <= OsW THEN DataValue
             ELSE OverscanValue)]]

OverscanKwargs ==
    [method : {"absent", "mean", "mean_value", "median_value"},
     reject : {"absent"}, clip_iters : {-1}]

NoFit == <<>>
NoWrite == [err |-> "pending"]

OverscanIdle ==
    /\ os_pc = "idle" /\ os_hdr = <<>> /\ os_raw = <<>> /\ os_kw = <<>>
    /\ os_data = <<>> /\ os_cols = <<>> /\ os_rows = NoRows
    /\ os_colbias = NoFit /\ os_tailbias = NoFit /\ os_rowbias = NoFit
    /\ os_out = NoWrite

OverscanInit ==
    /\ os_pc = "extract"
    /\ \E E \in StripRows, dx \in {0, 1}, ramp \in {0, 1}, outl \in BOOLEAN,
          tramp \in {0, 1}, cramp \in {0, 1} :
        /\ os_hdr = RawHeader(E, dx)
        /\ os_raw \in {RawArray(E, ramp, outl, tramp, cramp), FlatRaw(E, dx)}
    /\ os_kw \in OverscanKwargs
    /\ os_data = <<>> /\ os_cols = <<>> /\ os_rows = NoRows
    /\ os_colbias = NoFit /\ os_tailbias = NoFit /\ os_rowbias = NoFit
    /\ os_out = NoWrite

\* data,oscan_cols,oscan_rows = extract_overscan(fits[extn])
SubExtract ==
    /\ os_pc = "extract"
    /\ LET ex == extract_overscan(os_raw, os_hdr)
       IN  /\ os_data' = ex.data
           /\ os_cols' = ex.overscan_cols
           /\ os_rows' = ex.overscan_rows
    /\ os_pc' = "colbias"
    /\ UNCHANGED <<os_hdr, os_raw, os_kw, os_colbias, os_tailbias, os_rowbias,
                   os_out>>
    /\ UNCHANGED <<stk_vars, pf_vars, ss_vars, cc_vars, io_vars>>

\* colbias = fit_overscan(oscan_cols,**kwargs); data[:] -= colbias[:,np.newaxis]
SubColBias ==
    /\ os_pc = "colbias"
    /\ LET f == fit_overscan(os_cols, os_kw, "columns")
       IN  IF f.err # "none"
           THEN /\ os_pc' = "error"
                /\ os_out' = [err |-> f.err]
                /\ UNCHANGED <<os_colbias, os_data>>
           ELSE /\ os_colbias' = f.fit
                /\ os_data' = SubPerRow(os_data, f.fit)
                /\ os_pc' = IF os_rows.some THEN "tail" ELSE "write"
                /\ UNCHANGED os_out
    /\ UNCHANGED <<os_hdr, os_raw, os_kw, os_cols, os_rows, os_tailbias,
                   os_rowbias>>
    /\ UNCHANGED <<stk_vars, pf_vars, ss_vars, cc_vars, io_vars>>

\* _colbias = fit_overscan(oscan_rows[:,-20:],**kwargs)
\* oscan_rows = oscan_rows[:,:-20] - _colbias[:,np.newaxis]
SubTail ==
    /\ os_pc = "tail"
    /\ LET f == fit_overscan(StripTail(os_rows.arr), os_kw, "columns")
       IN  IF f.err # "none"
           THEN /\ os_pc' = "error"
                /\ os_out' = [err |-> f.err]
                /\ UNCHANGED <<os_tailbias, os_rows>>
           ELSE /\ os_tailbias' = f.fit
                /\ os_rows' = [some |-> TRUE,
                               arr |-> CorrectedStrip(os_rows.arr, f.fit)]
                /\ os_pc' = "rowbias"
                /\ UNCHANGED os_out
    /\ UNCHANGED <<os_hdr, os_raw, os_kw, os_data, os_cols, os_colbias,
                   os_rowbias>>
    /\ UNCHANGED <<stk_vars, pf_vars, ss_vars, cc_vars, io_vars>>

\* rowbias = fit_overscan(oscan_rows,along='rows',**kwargs)
\* data[:] -= rowbias[np.newaxis,:data.shape[1]]
SubRowBias ==
    /\ os_pc = "rowbias"
    /\ LET f == fit_overscan(os_rows.arr, os_kw, "rows")
       IN  IF f.err # "none"
           THEN /\ os_pc' = "error"
                /\ os_out' = [err |-> f.err]
                /\ UNCHANGED <<os_rowbias, os_data>>
           ELSE /\ os_rowbias' = f.fit
                /\ os_data' = SubPerCol(os_data, f.fit)
                /\ os_pc' = "write"
                /\ UNCHANGED os_out
    /\ UNCHANGED <<os_hdr, os_raw, os_kw, os_cols, os_rows, os_colbias,
                   os_tailbias>>
    /\ UNCHANGED <<stk_vars, pf_vars, ss_vars, cc_vars, io_vars>>

\* hdr['OSCANSUB'], hdr['OSCANMED']; outFits.write(data,extname=extn,header=hdr)
SubWrite ==
    /\ os_pc = "write"
    /\ os_out' = [err |-> "none", data |-> os_data,
                  OSCANSUB |-> OscanSubCard(os_kw),
                  OSCANMED |-> FMedian([r \in DOMAIN os_colbias |-> os_colbias[r].v])]
    /\ os_pc' = "done"
    /\ UNCHANGED <<os_hdr, os_raw, os_kw, os_data, os_cols, os_rows,
                   os_colbias, os_tailbias, os_rowbias>>
    /\ UNCHANGED <<stk_vars, pf_vars, ss_vars, cc_vars, io_vars>>

OverscanNext == SubExtract \/ SubColBias \/ SubTail \/ SubRowBias \/ SubWrite

(***************************************************************************)
(* subtract_overscan as a run over a file list, at the level of the files  *)
(* it creates: the output of every frame, and the scratch files and the    *)
(* diagnostic image of each of the two OverscanCollections.  The caller    *)
(* passes one extension in 'extensions'.                                   *)
(***************************************************************************)
RunFiles == 2                \* len(fileList)
Extn == "IM4"                \* the one name in kwargs 'extensions'
RunStripRows == {0, 2, 5}    \* rows below the data section of a frame

\* a file: whether it exists, and the units written to it in order
NoFile == [exists |-> FALSE, units |-> <<>>]
EmptyFile == [exists |-> TRUE, units |-> <<>>]
OldFile == [exists |-> TRUE, units |-> <<"old">>]

\* outputFileMap(f) of the i-th frame
OutPath(i) == "out" \o ToString(i)
OutPaths == {OutPath(i) : i \in 1..RunFiles}
\* oscanColsImgFile+'_'+extn and oscanRowsImgFile+'_'+extn
CollBase(along) == IF along = "columns" THEN "oscan_cols_" \o Extn
                   ELSE "oscan_rows_" \o Extn
tmpfn1(along) == CollBase(along) \o "_oscantmp.npy"
tmpfn2(along) == CollBase(along) \o "_restmp.npy"
imgFile(along) == CollBase(along) \o ".fits"
Alongs == {"columns", "rows"}
ScratchPaths == {tmpfn1(a) : a \in Alongs} \cup {tmpfn2(a) : a \in Alongs}
ImagePaths == {imgFile(a) : a \in Alongs}
RunPaths == OutPaths \cup ScratchPaths \cup ImagePaths

\* fitsio.FITS(path,'rw') and open(path,'ab'): an existing file is opened
\* as it is, a missing one is created empty
OpenRW(f) == IF f.exists THEN f ELSE EmptyFile
\* one write call appends one unit to the file
WriteUnit(f, u) == [exists |-> TRUE, units |-> Append(f.units, u)]

\* OverscanCollection.__init__: stale scratch files are unlinked, then both
\* are opened for appending
CollectionInit(fs, along) ==
    [p \in DOMAIN fs |->
        IF p \in {tmpfn1(along), tmpfn2(along)} THEN EmptyFile ELSE fs[p]]

\* OverscanCollection.append: one np.save to each scratch file
CollectionAppend(fs, along, tag) ==
    [p \in DOMAIN fs |->
        IF p \in {tmpfn1(along), tmpfn2(along)} THEN WriteUnit(fs[p], tag)
        ELSE fs[p]]

\* OverscanCollection.write_image: nothing is written without appended
\* frames; otherwise an existing image is unlinked and a new one written
\* with the stacked strips and the stacked residuals
CollectionWriteImage(fs, along, nfiles) ==
    IF nfiles = 0 THEN fs
    ELSE [p \in DOMAIN fs |->
            IF p = imgFile(along)
                THEN WriteUnit(WriteUnit(OpenRW(NoFile), "oscanImg"), "oscanResImg")
            ELSE fs[p]]

\* OverscanCollection.close: both scratch files are unlinked
CollectionClose(fs, along) ==
    [p \in DOMAIN fs |->
        IF p \in {tmpfn1(along), tmpfn2(along)} THEN NoFile ELSE fs[p]]

\* the first exception raised by the body of the extension loop, or "none"
ExtensionError(raw, hdr, kw) ==
    LET ex == extract_overscan(raw, hdr)
        f1 == fit_overscan(ex.overscan_cols, kw, "columns")
    IN  IF f1.err # "none" THEN f1.err
        ELSE IF ~ex.overscan_rows.some THEN "none"
        ELSE LET f2 == fit_overscan(StripTail(ex.overscan_rows.arr), kw, "columns")
             IN  IF f2.err # "none" THEN f2.err
                 ELSE fit_overscan(CorrectedStrip(ex.overscan_rows.arr, f2.fit),
                                   kw, "rows").err

\* ---- inputs
RunKwargs ==
    [method : {"absent", "bogus"}, reject : {"absent", "bogus"},
     clip_iters : {-1}, write_overscan_image : BOOLEAN]

RunFrame(E) == [hdr |-> RawHeader(E, 0), raw |-> FlatRaw(E, 0)]

\* the files present before the call: outputs of an earlier run may exist,
\* and so may the scratch files of an earlier run that did not finish
RunFileSystems ==
    {[p \in RunPaths |->
        IF p \in old \/ (stale /\ p \in ScratchPaths) THEN OldFile ELSE NoFile] :
     old \in SUBSET OutPaths, stale \in BOOLEAN}

RunIdle ==
    /\ run_pc = "idle" /\ run_kw = <<>> /\ run_frames = <<>> /\ run_i = 0
    /\ run_fs0 = <<>> /\ run_fs = <<>> /\ run_coll = <<>> /\ run_err = "none"

RunInit ==
    /\ run_pc = "start"
    /\ run_kw \in RunKwargs
    /\ run_frames \in [1..RunFiles -> {RunFrame(E) : E \in RunStripRows}]
    /\ run_i = 1
    /\ run_fs0 \in RunFileSystems
    /\ run_fs = run_fs0
    /\ run_coll = [columns |-> 0, rows |-> 0]
    /\ run_err = "none"

\* lines 470-484: the collections are created when write_overscan_image
RunStart ==
    /\ run_pc = "start"
    /\ run_fs' = IF run_kw.write_overscan_image
                     THEN CollectionInit(CollectionInit(run_fs, "columns"), "rows")
                 ELSE run_fs
    /\ run_pc' = "open"
    /\ UNCHANGED <<run_kw, run_frames, run_i, run_fs0, run_coll, run_err>>
    /\ UNCHANGED <<core_vars, sx_vars, cw_vars, om_vars, sky_vars, bias_vars,
                 fn_vars, flat_vars>>

\* fits = fitsio.FITS(f); outFits = fitsio.FITS(outputFileMap(f),'rw');
\* outFits.write(None,header=hdr)
RunOpenFrame ==
    /\ run_pc = "open"
    /\ run_fs' = [run_fs EXCEPT ![OutPath(run_i)] = WriteUnit(OpenRW(@), "primary")]
    /\ run_pc' = "ext"
    /\ UNCHANGED <<run_kw, run_frames, run_i, run_fs0, run_coll, run_err>>
    /\ UNCHANGED <<core_vars, sx_vars, cw_vars, om_vars, sky_vars, bias_vars,
                 fn_vars, flat_vars>>

\* the body of the extension loop: an exception of a fit leaves the
\* function; otherwise the extension is written and, when
\* write_overscan_image, the strips are appended to the collections
RunExtension ==
    /\ run_pc = "ext"
    /\ LET fr == run_frames[run_i]
           err == ExtensionError(fr.raw, fr.hdr, run_kw)
           strip == extract_overscan(fr.raw, fr.hdr).overscan_rows.some
           written == [run_fs EXCEPT ![OutPath(run_i)] = WriteUnit(@, Extn)]
           tag == "frame" \o ToString(run_i)
           withcols == CollectionAppend(written, "columns", tag)
       IN  IF err # "none"
           THEN /\ run_pc' = "aborted"
                /\ run_err' = err
                /\ UNCHANGED <<run_fs, run_coll>>
           ELSE /\ run_pc' = "close"
                /\ run_fs' = IF ~run_kw.write_overscan_image THEN written
                             ELSE IF strip THEN CollectionAppend(withcols, "rows", tag)
                             ELSE withcols
                /\ run_coll' = IF ~run_kw.write_overscan_image THEN run_coll
                               ELSE [columns |-> run_coll.columns + 1,
                                     rows |-> run_coll.rows + (IF strip THEN 1 ELSE 0)]
                /\ UNCHANGED run_err
    /\ UNCHANGED <<run_kw, run_frames, run_i, run_fs0>>
    /\ UNCHANGED <<core_vars, sx_vars, cw_vars, om_vars, sky_vars, bias_vars,
                 fn_vars, flat_vars>>

\* fits.close(); outFits.close() and the move to the next frame
RunCloseFrame ==
    /\ run_pc = "close"
    /\ run_i' = run_i + 1
    /\ run_pc' = IF run_i = RunFiles THEN "finish" ELSE "open"
    /\ UNCHANGED <<run_kw, run_frames, run_fs0, run_fs, run_coll, run_err>>
    /\ UNCHANGED <<core_vars, sx_vars, cw_vars, om_vars, sky_vars, bias_vars,
                 fn_vars, flat_vars>>

\* lines 521-527: the diagnostic images are written and the collections
\* closed
RunFinish ==
    /\ run_pc = "finish"
    /\ run_fs' =
         IF ~run_kw.write_overscan_image THEN run_fs
         ELSE LET c1 == CollectionWriteImage(run_fs, "columns", run_coll.columns)
                  c2 == CollectionClose(c1, "columns")
                  r1 == IF run_coll.rows > 0
                            THEN CollectionWriteImage(c2, "rows", run_coll.rows)
                        ELSE c2
              IN  CollectionClose(r1, "rows")
    /\ run_pc' = "returned"
    /\ UNCHANGED <<run_kw, run_frames, run_i, run_fs0, run_coll, run_err>>
    /\ UNCHANGED <<core_vars, sx_vars, cw_vars, om_vars, sky_vars, bias_vars,
                 fn_vars, flat_vars>>

RunNext == RunStart \/ RunOpenFrame \/ RunExtension \/ RunCloseFrame \/ RunFinish

(***************************************************************************)
(* sextract_pass1: for every frame the extraction program is run as a      *)
(* subprocess (subprocess.call waits for it and returns its exit status),  *)
(* then the object mask it wrote is read and rewritten CCD by CCD.         *)
(***************************************************************************)
SxFiles == 2                                   \* len(fileList)
\* how a subprocess can end: exit status 0, a non-zero exit status, or the
\* program cannot be started at all
SxOutcomes == {"ok", "failed", "notfound"}

\* the object mask file of a frame: whether it exists, which run wrote it
\* and the CCDs rewritten with the grown mask
NoMaskFile == [exists |-> FALSE, run |-> "none", grown |-> {}]
StaleMaskFile == [exists |-> TRUE, run |-> "earlier", grown |-> {}]
FreshMaskFile == [exists |-> TRUE, run |-> "this", grown |-> {}]

SextractIdle ==
    /\ sx_pc = "idle" /\ sx_overwrite = FALSE /\ sx_i = 0 /\ sx_ccd = 0
    /\ sx_cat = <<>> /\ sx_mask = <<>> /\ sx_proc = <<>> /\ sx_read = <<>>
    /\ sx_err = "none"

SextractInit ==
    /\ sx_pc = "frame"
    /\ sx_overwrite \in BOOLEAN
    /\ sx_i = 1 /\ sx_ccd = 0
    /\ sx_cat \in [1..SxFiles -> BOOLEAN]
    /\ sx_mask \in [1..SxFiles -> {NoMaskFile, StaleMaskFile}]
    /\ sx_proc = [i \in 1..SxFiles |-> "notrun"]
    /\ sx_read = [i \in 1..SxFiles |-> {}]
    /\ sx_err = "none"

\* the move to the next frame of fileList, or the return
SxAdvance == IF sx_i = SxFiles THEN "done" ELSE "frame"

\* if os.path.exists(catalogFile) and not overwrite: continue
SxSkip ==
    /\ sx_pc = "frame"
    /\ sx_cat[sx_i] /\ ~sx_overwrite
    /\ sx_i' = sx_i + 1
    /\ sx_pc' = SxAdvance
    /\ UNCHANGED <<sx_overwrite, sx_ccd, sx_cat, sx_mask, sx_proc, sx_read, sx_err>>
    /\ UNCHANGED <<core_vars, run_vars, cw_vars, om_vars, sky_vars, bias_vars,
                 fn_vars, flat_vars>>

\* subprocess.call(cmd) starts the program; a program that cannot be started
\* raises OSError in the caller
SxLaunch ==
    /\ sx_pc = "frame"
    /\ ~(sx_cat[sx_i] /\ ~sx_overwrite)
    /\ \/ /\ sx_proc' = [sx_proc EXCEPT ![sx_i] = "running"]
          /\ sx_pc' = "call"
          /\ UNCHANGED sx_err
       \/ /\ sx_proc' = [sx_proc EXCEPT ![sx_i] = "notfound"]
          /\ sx_pc' = "aborted"
          /\ sx_err' = "OSError"
    /\ UNCHANGED <<sx_overwrite, sx_i, sx_ccd, sx_cat, sx_mask, sx_read>>
    /\ UNCHANGED <<core_vars, run_vars, cw_vars, om_vars, sky_vars, bias_vars,
                 fn_vars, flat_vars>>

\* the subprocess ends: with exit status 0 it has written the catalog and
\* the segmentation image; on a failure it has written neither
SxExit ==
    /\ sx_pc = "call" /\ sx_proc[sx_i] = "running"
    /\ \E out \in SxOutcomes \ {"notfound"} :
        /\ sx_proc' = [sx_proc EXCEPT ![sx_i] = out]
        /\ sx_cat' = IF out = "ok" THEN [sx_cat EXCEPT ![sx_i] = TRUE] ELSE sx_cat
        /\ sx_mask' = IF out = "ok" THEN [sx_mask EXCEPT ![sx_i] = FreshMaskFile]
                      ELSE sx_mask
    /\ UNCHANGED <<sx_pc, sx_overwrite, sx_i, sx_ccd, sx_read, sx_err>>
    /\ UNCHANGED <<core_vars, run_vars, cw_vars, om_vars, sky_vars, bias_vars,
                 fn_vars, flat_vars>>

\* subprocess.call returns once the program has ended; its return value is
\* dropped.  fits = fitsio.FITS(f,'rw'); maskFits =
\* fitsio.FITS(objMaskFileMap(f),'rw'): a missing mask file is created empty
SxOpenMask ==
    /\ sx_pc = "call" /\ sx_proc[sx_i] \in {"ok", "failed"}
    /\ sx_mask' = [sx_mask EXCEPT ![sx_i] =
                      IF @.exists THEN @
                      ELSE [exists |-> TRUE, run |-> "empty", grown |-> {}]]
    /\ sx_ccd' = 1
    /\ sx_pc' = "mask"
    /\ UNCHANGED <<sx_overwrite, sx_i, sx_cat, sx_proc, sx_read, sx_err>>
    /\ UNCHANGED <<core_vars, run_vars, cw_vars, om_vars, sky_vars, bias_vars,
                 fn_vars, flat_vars>>

\* mask = grow_obj_mask(fits[ccd][:,:],maskFits[ccd][:,:]);
\* maskFits[ccd].write(mask.astype(np.int16),clobber=True): an empty mask
\* file has no extension to read
SxGrowMask ==
    /\ sx_pc = "mask"
    /\ IF sx_mask[sx_i].run = "empty"
       THEN /\ sx_pc' = "aborted"
            /\ sx_err' = "IOError"
            /\ UNCHANGED <<sx_i, sx_ccd, sx_mask, sx_read>>
       ELSE /\ sx_read' = [sx_read EXCEPT ![sx_i] = @ \cup {sx_ccd}]
            /\ sx_mask' = [sx_mask EXCEPT ![sx_i].grown = @ \cup {sx_ccd}]
            /\ IF sx_ccd = 4                 \* 'CCD%d' % i, i in range(1,5)
               THEN /\ sx_i' = sx_i + 1      \* maskFits.close()
                    /\ sx_pc' = SxAdvance
                    /\ sx_ccd' = 0
               ELSE /\ sx_ccd' = sx_ccd + 1
                    /\ UNCHANGED <<sx_i, sx_pc>>
            /\ UNCHANGED sx_err
    /\ UNCHANGED <<sx_overwrite, sx_cat, sx_proc>>
    /\ UNCHANGED <<core_vars, run_vars, cw_vars, om_vars, sky_vars, bias_vars,
                 fn_vars, flat_vars>>

SextractNext == SxSkip \/ SxLaunch \/ SxExit \/ SxOpenMask \/ SxGrowMask

(***************************************************************************)
(* combine_ccds run by several workers at once, each on its own input      *)
(* file, all in the same working directory.  An open file handle follows   *)
(* its file when the file is renamed.                                      *)
(***************************************************************************)
NWorkers == 2
Workers == 1..NWorkers
tmpFileName == "tmp.fits"
InPath(w) == "in" \o ToString(w)          \* the one file of worker w's fileList
CwPaths == {tmpFileName} \cup {InPath(w) : w \in Workers}
               \cup {OutPath(w) : w \in Workers}

WorkersIdle ==
    /\ cw_pc = <<>> /\ cw_map = <<>> /\ cw_ccd = <<>> /\ cw_handle = <<>>
    /\ cw_fs = <<>> /\ cw_touched = <<>>

WorkersInit ==
    /\ cw_pc = [w \in Workers |-> "file"]
    /\ cw_map \in [Workers -> BOOLEAN]       \* is 'output_file_map' passed
    /\ cw_ccd = [w \in Workers |-> 0]
    /\ cw_handle = [w \in Workers |-> "none"]
    /\ cw_fs = [p \in CwPaths |->
                  IF p \in {InPath(w) : w \in Workers}
                      THEN [exists |-> TRUE, units |-> <<<<0, "raw">>>>]
                  ELSE NoFile]
    /\ cw_touched = [w \in Workers |-> {}]

\* inFits = fitsio.FITS(f); outFits = fitsio.FITS(outputFileMap(f),'rw') or
\* fitsio.FITS(tmpFileName,'rw'); outFits.write(None,header=hdr)
CwOpen(w) ==
    /\ cw_pc[w] = "file"
    /\ LET path == IF cw_map[w] THEN OutPath(w) ELSE tmpFileName
       IN  /\ cw_fs' = [cw_fs EXCEPT ![path] = WriteUnit(OpenRW(@), <<w, "primary">>)]
           /\ cw_handle' = [cw_handle EXCEPT ![w] = path]
           /\ cw_touched' = [cw_touched EXCEPT ![w] = @ \cup {InPath(w), path}]
    /\ cw_ccd' = [cw_ccd EXCEPT ![w] = 1]
    /\ cw_pc' = [cw_pc EXCEPT ![w] = "ccd"]
    /\ UNCHANGED cw_map
    /\ UNCHANGED <<core_vars, run_vars, sx_vars, om_vars, sky_vars, bias_vars,
                 fn_vars, flat_vars>>

\* outFits.write(outIm,extname='CCD%d'%ccdNum,header=hdr)
CwWriteCcd(w) ==
    /\ cw_pc[w] = "ccd"
    /\ cw_fs' = [cw_fs EXCEPT ![cw_handle[w]] =
                    WriteUnit(@, <<w, "CCD" \o ToString(cw_ccd[w])>>)]
    /\ IF cw_ccd[w] = 4
       THEN /\ cw_pc' = [cw_pc EXCEPT ![w] = "close"]
            /\ UNCHANGED cw_ccd
       ELSE /\ cw_ccd' = [cw_ccd EXCEPT ![w] = @ + 1]
            /\ UNCHANGED cw_pc
    /\ UNCHANGED <<cw_map, cw_handle, cw_touched>>
    /\ UNCHANGED <<core_vars, run_vars, sx_vars, om_vars, sky_vars, bias_vars,
                 fn_vars, flat_vars>>

\* outFits.close()
CwClose(w) ==
    /\ cw_pc[w] = "close"
    /\ cw_handle' = [cw_handle EXCEPT ![w] = "none"]
    /\ cw_pc' = [cw_pc EXCEPT ![w] = IF cw_map[w] THEN "done" ELSE "rename"]
    /\ UNCHANGED <<cw_map, cw_ccd, cw_fs, cw_touched>>
    /\ UNCHANGED <<core_vars, run_vars, sx_vars, om_vars, sky_vars, bias_vars,
                 fn_vars, flat_vars>>

\* os.rename(tmpFileName,f): OSError when tmp.fits is not there
CwRename(w) ==
    /\ cw_pc[w] = "rename"
    /\ cw_touched' = [cw_touched EXCEPT ![w] = @ \cup {tmpFileName, InPath(w)}]
    /\ IF ~cw_fs[tmpFileName].exists
       THEN /\ cw_pc' = [cw_pc EXCEPT ![w] = "aborted"]
            /\ UNCHANGED <<cw_fs, cw_handle>>
       ELSE /\ cw_pc' = [cw_pc EXCEPT ![w] = "done"]
            /\ cw_fs' = [cw_fs EXCEPT ![InPath(w)] = cw_fs[tmpFileName],
                                      ![tmpFileName] = NoFile]
            /\ cw_handle' = [v \in Workers |->
                                IF cw_handle[v] = tmpFileName THEN InPath(w)
                                ELSE cw_handle[v]]
    /\ UNCHANGED <<cw_map, cw_ccd>>
    /\ UNCHANGED <<core_vars, run_vars, sx_vars, om_vars, sky_vars, bias_vars,
                 fn_vars, flat_vars>>

WorkersNext ==
    \E w \in Workers : CwOpen(w) \/ CwWriteCcd(w) \/ CwClose(w) \/ CwRename(w)

(***************************************************************************)
(* _orient_mosaic: the four amplifier images of a CCD are rotated and      *)
(* flipped into a common orientation and stacked into one CCD image.       *)
(* Arrays are 1-indexed here: element [r][c] is numpy's [r-1][c-1].        *)
(***************************************************************************)
\* np.rot90(m, k): k counterclockwise quarter turns; one turn sends an
\* (h x w) array to the (w x h) array whose row i is column w+1-i of m
RECURSIVE rot90(_, _)
rot90(m, k) ==
    IF k % 4 = 0 THEN m
    ELSE LET p == rot90(m, (k % 4) - 1)
             h == NRowsOf(p)
             w == NColsOf(p)
         IN  [i \in 1..w |-> [j \in 1..h |-> p[j][w + 1 - i]]]

\* np.flipud, np.fliplr: the rows, the columns in reverse order
flipud(m) == [i \in 1..NRowsOf(m) |-> m[NRowsOf(m) + 1 - i]]
fliplr(m) ==
    [i \in 1..NRowsOf(m) |-> [j \in 1..NColsOf(m) |-> m[i][NColsOf(m) + 1 - j]]]

\* np.hstack([a, b]) and np.vstack([a, b])
hstack(a, b) == [i \in 1..NRowsOf(a) |-> a[i] \o b[i]]
vstack(a, b) == a \o b

\* variant: the two amplifier images of the upper row change places
_orient_mosaic_UpperSwapped(ims, ccdNum, origin) ==
    vstack(hstack(rot90(ims[4], 3), flipud(rot90(ims[2], 1))),
           hstack(rot90(ims[1], 1), fliplr(rot90(ims[3], 1))))

\* variant: no whole-mosaic flip or rotation under origin 'center'
_orient_mosaic_NoOriginFlip(ims, ccdNum, origin) ==
    vstack(hstack(flipud(rot90(ims[2], 1)), rot90(ims[4], 3)),
           hstack(rot90(ims[1], 1), fliplr(rot90(ims[3], 1))))

\* outIm of _orient_mosaic(hdr,ims,ccdNum,origin)
_orient_mosaic(ims, ccdNum, origin) ==
    LET outIm == vstack(hstack(flipud(rot90(ims[2], 1)), rot90(ims[4], 3)),
                        hstack(rot90(ims[1], 1), fliplr(rot90(ims[3], 1))))
    IN  IF origin # "center" THEN outIm
        ELSE IF ccdNum = 1 THEN fliplr(outIm)
        ELSE IF ccdNum = 2 THEN rot90(outIm, 2)
        ELSE IF ccdNum = 4 THEN flipud(outIm)
        ELSE outIm

\* variant: the detector column of a CCD is ccdNum // 2
det_i_Floor(ccdNum) == ccdNum \div 2

\* det_i = (ccdNum-1) // 2 and det_j = ccdNum % 2: the place of the CCD in
\* the 2 x 2 detector array
det_i(ccdNum) == (ccdNum - 1) \div 2
det_j(ccdNum) == ccdNum % 2

\* hdr['DETSEC'] of a CCD image of nx columns and ny rows, as the four
\* numbers of '[x1:x2,y1:y2]'
DETSEC(nx, ny, ccdNum) ==
    <<nx * det_i(ccdNum) + 1, nx * (det_i(ccdNum) + 1),
      ny * det_j(ccdNum) + 1, ny * (det_j(ccdNum) + 1)>>

\* hdr['DETSIZE'] = '[1:%d,1:%d]' % (8192,8064) of combine_ccds
DETSIZE == <<1, 8192, 1, 8064>>

\* plateScale = np.max(np.abs([hdr['CD1_1'],hdr['CD1_2']]))
plateScale(hdr) ==
    IF Abs(hdr.CD1_1) >= Abs(hdr.CD1_2) THEN Abs(hdr.CD1_1) ELSE Abs(hdr.CD1_2)

\* variant: the row sign is taken from the detector column
signy_FromDetI(ccdNum) == IF det_i(ccdNum) = 0 THEN -1 ELSE 1

\* signx = [-1,+1][det_i] and signy = [-1,+1][det_j]
signx(ccdNum) == IF det_i(ccdNum) = 0 THEN -1 ELSE 1
signy(ccdNum) == IF det_j(ccdNum) = 0 THEN -1 ELSE 1

\* variant: the second detector column starts at -4096
CenterLTV1_Symmetric(ccdNum) == IF det_i(ccdNum) = 0 THEN 4096 ELSE -4096

\* hdr['LTV1'] = [4096.0,-4097.0][det_i], hdr['LTV2'] = [4033.0,-4032.0][det_j]
CenterLTV1(ccdNum) == IF det_i(ccdNum) = 0 THEN 4096 ELSE -4097
CenterLTV2(ccdNum) == IF det_j(ccdNum) = 0 THEN 4033 ELSE -4032

\* the keywords written under origin 'center'; CRPIX1 = -182.01 and
\* CRPIX2 = -59.04 are fractions
CenterKeywords(hdr, ccdNum) ==
    [CD1_1 |-> 0, CD2_2 |-> 0,
     CD2_1 |-> -signx(ccdNum) * plateScale(hdr),
     CD1_2 |-> signy(ccdNum) * plateScale(hdr),
     CRPIX1 |-> Frac(-18201, 100), CRPIX2 |-> Frac(-5904, 100),
     LTM1_1 |-> signx(ccdNum), LTM2_2 |-> signy(ccdNum),
     LTV1 |-> CenterLTV1(ccdNum), LTV2 |-> CenterLTV2(ccdNum)]

\* the keywords written under origin 'lower left'
LowerLeftKeywords(hdr, nx, ny, ccdNum) ==
    [LTM1_1 |-> 1, LTM2_2 |-> 1,
     LTV1 |-> IF det_i(ccdNum) = 0 THEN 0 ELSE -nx,
     LTV2 |-> IF det_j(ccdNum) = 0 THEN 0 ELSE -ny,
     CD1_1 |-> 0, CD1_2 |-> plateScale(hdr),
     CD2_1 |-> -plateScale(hdr), CD2_2 |-> 0,
     CRPIX1 |-> IF det_i(ccdNum) = 0 THEN FSub(FInt(1 + nx), hdr.CRPIX2)
                ELSE FAdd(FInt(1), hdr.CRPIX2),
     CRPIX2 |-> IF det_j(ccdNum) = 0 THEN FSub(FInt(ny), hdr.CRPIX1)
                ELSE hdr.CRPIX1]

\* the header of a CCD image of nx columns and ny rows: DATASEC and DETSEC,
\* and the keywords of the origin; with any other origin the rest of the
\* header stays as it was read
MosaicKeywords(hdr, nx, ny, ccdNum, origin) ==
    [DATASEC |-> <<1, nx, 1, ny>>, DETSEC |-> DETSEC(nx, ny, ccdNum)]
    @@ (IF origin = "center" THEN CenterKeywords(hdr, ccdNum)
        ELSE IF origin = "lower left" THEN LowerLeftKeywords(hdr, nx, ny, ccdNum)
        ELSE hdr)
    @@ hdr

MosaicHeader(hdr, outIm, ccdNum, origin) ==
    MosaicKeywords(hdr, NColsOf(outIm), NRowsOf(outIm), ccdNum, origin)

\* ---- inputs: the header of the center amplifier, with its CD matrix in
\* units of the last digit and no LTM/LTV keywords
OrientHeaders ==
    [CD1_1 : {0, 3}, CD1_2 : {-2, 2}, CD2_1 : {7}, CD2_2 : {-7},
     CRPIX1 : {FInt(10)}, CRPIX2 : {FInt(20)}]

\* ---- inputs: four (h x w) images whose pixels all differ
MaxSide == 3
AmpPixel(k, r, c) == 100 * k + 10 * r + c
AmpImage(k, h, w) == [r \in 1..h |-> [c \in 1..w |-> AmpPixel(k, r, c)]]

OrientIdle ==
    /\ om_pc = "idle" /\ om_ims = <<>> /\ om_ccdNum = 0 /\ om_origin = "none"
    /\ om_outIm = <<>> /\ om_hdr = <<>>

OrientInit ==
    /\ om_pc = "orient"
    /\ \E h \in 1..MaxSide, w \in 1..MaxSide :
           om_ims = [k \in 1..4 |-> AmpImage(k, h, w)]
    /\ om_ccdNum \in 1..4
    /\ om_origin \in {"lower left", "center", "upper left"}
    /\ om_outIm = <<>> /\ om_hdr \in OrientHeaders

\* lines 801-815: the stacked image in the orientation of the origin
OrientStack ==
    /\ om_pc = "orient"
    /\ om_outIm' = _orient_mosaic(om_ims, om_ccdNum, om_origin)
    /\ om_pc' = "header"
    /\ UNCHANGED <<om_ims, om_ccdNum, om_origin, om_hdr>>
    /\ UNCHANGED <<core_vars, run_vars, sx_vars, cw_vars, sky_vars, bias_vars,
                 fn_vars, flat_vars>>

\* lines 817-856: the keywords of the CCD image
OrientHeader ==
    /\ om_pc = "header"
    /\ om_hdr' = MosaicHeader(om_hdr, om_outIm, om_ccdNum, om_origin)
    /\ om_pc' = "done"
    /\ UNCHANGED <<om_ims, om_ccdNum, om_origin, om_outIm>>
    /\ UNCHANGED <<core_vars, run_vars, sx_vars, cw_vars, sky_vars, bias_vars,
                 fn_vars, flat_vars>>

OrientNext == OrientStack \/ OrientHeader

(***************************************************************************)
(* subtract_sky: a first-order polynomial sky model is fitted to the four  *)
(* CCDs of a frame and, less its value at the coordinate origin, is        *)
(* subtracted from every CCD.  The fit itself is made by the library       *)
(* fitter; here its result is any polynomial with small coefficients.      *)
(***************************************************************************)
\* np.sign
Sign(v) == IF v > 0 THEN 1 ELSE IF v < 0 THEN -1 ELSE 0

\* bok_getxy(hdr,coordsys) at the pixel of 0-indexed column x and row y
bok_getxy(hdr, coordsys, x, y) ==
    IF coordsys = "image" THEN [err |-> "none", x |-> x, y |-> y]
    ELSE IF coordsys = "physical"
        THEN [err |-> "none", x |-> hdr.LTM1_1 * (x - hdr.LTV1),
                              y |-> hdr.LTM2_2 * (y - hdr.LTV2)]
    ELSE IF coordsys = "sky"
        THEN [err |-> "none",
              x |-> Sign(hdr.CD1_1 + hdr.CD2_1) * (x - hdr.CRPIX1),
              y |-> Sign(hdr.CD1_2 + hdr.CD2_2) * (y - hdr.CRPIX2)]
    ELSE [err |-> "ValueError", x |-> 0, y |-> 0]

\* .astype(np.float32) of an integer: exact below 2^24, above it the
\* nearest multiple of the spacing of float32 numbers, ties to the even one
RECURSIVE Float32Spacing(_, _)
Float32Spacing(n, u) ==
    IF Abs(n) < 16777216 * u THEN u ELSE Float32Spacing(n, 2 * u)
AsFloat32(n) ==
    LET u == Float32Spacing(n, 1)
        q == n \div u
        r == n - q * u
    IN  IF 2 * r < u THEN q * u
        ELSE IF 2 * r > u THEN (q + 1) * u
        ELSE IF q % 2 = 0 THEN q * u ELSE (q + 1) * u

\* models.Polynomial2D(degree=1) evaluated at (x, y)
EvalPoly(p, x, y) == p.c0_0 + p.c1_0 * x + p.c0_1 * y

\* variant: nothing is taken off the fitted surface
sky0_Zero(p) == 0

\* sky0 = skyFit['skymodel'](0,0)
sky0(p) == EvalPoly(p, 0, 0)

\* skyfit = (skyFit[ccd] - sky0).astype(np.float32), where skyFit[ccd] is
\* the model at the sky coordinates of every pixel of the CCD
SkyFitImage(p, hdr, nrows, ncols) ==
    [r \in 1..nrows |-> [c \in 1..ncols |->
        LET xy == bok_getxy(hdr, "sky", c - 1, r - 1)
        IN  AsFloat32(EvalPoly(p, xy.x, xy.y) - sky0(p))]]

\* data = inFits[ccd][:,:] - skyfit
SkySubtracted(im, skyfit) ==
    [r \in 1..NRowsOf(im) |-> [c \in 1..NColsOf(im) |->
        AsFloat32(im[r][c] - skyfit[r][c])]]

\* ---- inputs: four CCD images of SkyH x SkyW pixels; the WCS keywords
\* bok_getxy reads
SkyH == 2
SkyW == 2
SkyImage(n) == [r \in 1..SkyH |-> [c \in 1..SkyW |-> 1000 * n + 10 * r + c]]
SkyHeaders ==
    [CD1_1 : {0}, CD2_2 : {0}, CD2_1 : {-1, 1}, CD1_2 : {-1, 1},
     CRPIX1 : {0, -1}, CRPIX2 : {1, -2}]
SkyModels == [c0_0 : {0, 3}, c1_0 : {0, 1, 16777217}, c0_1 : {0, -2}]
NoModel == [c0_0 |-> 0, c1_0 |-> 0, c0_1 |-> 0]

SkyIdle ==
    /\ sky_pc = "idle" /\ sky_hdr = <<>> /\ sky_in = <<>> /\ sky_p = NoModel
    /\ sky_ccd = 0 /\ sky_out = <<>>

SkyInit ==
    /\ sky_pc = "fit"
    /\ \E h \in SkyHeaders :
           sky_hdr = [n \in 1..4 |->
                         [h EXCEPT !.CRPIX1 = IF n = 1 THEN @ ELSE @ - n]]
    /\ sky_in = [n \in 1..4 |-> SkyImage(n)]
    /\ sky_p = NoModel
    /\ sky_ccd = 0 /\ sky_out = <<>>

\* skyFit = bok_polyfit(inFits,64,1,maskFits=maskFits)
SkyFit ==
    /\ sky_pc = "fit"
    /\ sky_p' \in SkyModels
    /\ sky_ccd' = 1
    /\ sky_pc' = "ccd"
    /\ UNCHANGED <<sky_hdr, sky_in, sky_out>>
    /\ UNCHANGED <<core_vars, run_vars, sx_vars, cw_vars, om_vars, bias_vars,
                 fn_vars, flat_vars>>

\* the body of the CCD loop: the CCD less the sky model is written with
\* hdr['SKYVAL'] = sky0
SkySubtractCcd ==
    /\ sky_pc = "ccd"
    /\ LET skyfit == SkyFitImage(sky_p, sky_hdr[sky_ccd], SkyH, SkyW)
       IN  sky_out' = Append(sky_out,
                             [data |-> SkySubtracted(sky_in[sky_ccd], skyfit),
                              SKYVAL |-> sky0(sky_p)])
    /\ sky_ccd' = sky_ccd + 1
    /\ sky_pc' = IF sky_ccd = 4 THEN "done" ELSE "ccd"
    /\ UNCHANGED <<sky_hdr, sky_in, sky_p>>
    /\ UNCHANGED <<core_vars, run_vars, sx_vars, cw_vars, om_vars, bias_vars,
                 fn_vars, flat_vars>>

SkyNext == SkyFit \/ SkySubtractCcd

(***************************************************************************)
(* stack_bias_frames with check_dropped_rows, for one extension.  The      *)
(* cube holds one image column of the central band: pixel p of frame k is  *)
(* cube[p][k], and every row of a frame is constant across the 21 central  *)
(* columns, so that the median of a row over them is the row's value and   *)
(* the statistics of the central region are those of its rows.             *)
(***************************************************************************)
EdgeRows == 200          \* medianCol[:200] and centerSlices[200:-200]
MaxBadRows == 10         \* if row1 > 10
RowPad == 3              \* row1 += 3
DefaultSig == <<3, 1>>   \* sigma_clip's default sig = 3

\* the samples of centerSlices[200:-200], all frames together, and the set
\* of those that are masked
CentralRows(cube) == (EdgeRows + 1)..(Len(cube) - EdgeRows)
CentralSamples(cube, mask) ==
    LET rows == CentralRows(cube)
        nr == Cardinality(rows)
        nf == Len(cube[1])
        row(i) == EdgeRows + 1 + ((i - 1) \div nf)
        frm(i) == 1 + ((i - 1) % nf)
    IN  [vals |-> [i \in 1..(nr * nf) |-> cube[row(i)][frm(i)]],
         msk |-> {i \in 1..(nr * nf) : frm(i) \in mask[row(i)]}]

\* s = sigma_clip(centerSlices[200:-200]) with the defaults sig=3, iters=1,
\* cenfunc=np.ma.median, varfunc=np.var: a sample is masked when its squared
\* deviation from the median exceeds 9 times the variance; the result is
\* s.mean() and the square of s.std()
CentralStats(cube, mask) ==
    LET c == CentralSamples(cube, mask)
        med == MaMedian(c.vals, c.msk)
        var == MaVarFilled(c.vals, c.msk)
        clipped == c.msk \cup
            {i \in DOMAIN c.vals \ c.msk :
                LET d == FSub(FInt(c.vals[i]), med.v)
                IN  FLess(FMul(FMul(FInt(DefaultSig[1] * DefaultSig[1]), var),
                               FInt(1)),
                          FMul(FMul(d, d), FInt(DefaultSig[2] * DefaultSig[2])))}
    IN  [mean |-> MaMean(c.vals, clipped).v, var |-> MaVarFilled(c.vals, clipped)]

\* rej = np.abs(medianCol-s.mean())/s.std() > 3.0 for a row of value m: the
\* quotient is inf for a deviating row when s.std() is 0, and nan (never
\* greater) for a row that does not deviate
RowRejected(m, st) ==
    LET d == FSub(FInt(m), st.mean)
    IN  FLess(FMul(FInt(9), st.var), FMul(d, d))

\* row1 = np.where(~rej)[0][0]: the 0-indexed first row of frame k among the
\* first 200 that is not rejected; EdgeRows stands for "there is none"
FirstKeptRow(cube, k, st) ==
    LET kept == {r \in 0..(EdgeRows - 1) : ~RowRejected(cube[r + 1][k], st)}
    IN  IF kept = {} THEN EdgeRows
        ELSE CHOOSE r \in kept : \A q \in kept : r <= q

\* variant: the safety margin is added from 10 rows on
PaddedRow1_FromTen(row1) == IF row1 >= MaxBadRows THEN row1 + RowPad ELSE row1

\* if row1 > 10: row1 += 3
PaddedRow1(row1) == IF row1 > MaxBadRows THEN row1 + RowPad ELSE row1

\* biasCube[:row1,:,k] = np.ma.masked
MaskRows(mask, row1, k) ==
    [p \in DOMAIN mask |-> IF p <= row1 THEN mask[p] \cup {k} ELSE mask[p]]

\* ---- inputs: frames of BiasRows rows at the level BiasBase, whose central
\* region alternates one count below and above it; a frame starts with a
\* number of dropped rows that read 0, or with a row 3 sigma above the level
BiasFrames == 2
CentralHeight == 4
BiasRows == EdgeRows + CentralHeight + EdgeRows
BiasBase == 50
DroppedCounts == {0, 10, 11}
BiasFrame(ndrop, edge) ==
    [p \in 1..BiasRows |->
        IF p <= ndrop THEN 0
        ELSE IF p = 1 /\ edge THEN BiasBase + 3
        ELSE IF p > EdgeRows /\ p <= EdgeRows + CentralHeight
            THEN BiasBase + (IF p % 2 = 0 THEN 1 ELSE -1)
        ELSE BiasBase]
BiasFrameInputs ==
    {BiasFrame(n, FALSE) : n \in DroppedCounts} \cup {BiasFrame(0, TRUE)}
DroppedRowKwargs ==
    [reject : {"absent"}, method : {"absent", "mean", "median"},
     clip_iters : {-1}, scale : {<<>>}, with_variance : {FALSE},
     check_dropped_rows : BOOLEAN]
NoBias == [err |-> "pending"]

BiasIdle ==
    /\ bias_pc = "idle" /\ bias_cube = <<>> /\ bias_mask = <<>>
    /\ bias_kw = <<>> /\ bias_k = 0 /\ bias_row1 = <<>> /\ bias_out = NoBias

BiasInit ==
    /\ bias_pc = "check"
    /\ \E fr \in [1..BiasFrames -> BiasFrameInputs] :
           bias_cube = [p \in 1..BiasRows |-> [k \in 1..BiasFrames |-> fr[k][p]]]
    /\ bias_mask = [p \in 1..BiasRows |-> {}]
    /\ bias_kw \in DroppedRowKwargs
    /\ bias_k = 1 /\ bias_row1 = <<>> /\ bias_out = NoBias

\* if check_dropped_rows: the loop is not entered otherwise
BiasNoCheck ==
    /\ bias_pc = "check" /\ ~bias_kw.check_dropped_rows
    /\ bias_pc' = "stack"
    /\ UNCHANGED <<bias_cube, bias_mask, bias_kw, bias_k, bias_row1, bias_out>>
    /\ UNCHANGED <<core_vars, run_vars, sx_vars, cw_vars, om_vars, sky_vars,
                 fn_vars, flat_vars>>

\* one pass of the loop over the frames: the rows of frame k up to row1
\* are masked; without a row that is not rejected the index raises
BiasCheckFrame ==
    /\ bias_pc = "check" /\ bias_kw.check_dropped_rows
    /\ LET st == CentralStats(bias_cube, bias_mask)
           r0 == FirstKeptRow(bias_cube, bias_k, st)
       IN  IF r0 = EdgeRows
           THEN /\ bias_pc' = "error"
                /\ bias_out' = [err |-> "IndexError"]
                /\ UNCHANGED <<bias_mask, bias_k, bias_row1>>
           ELSE /\ bias_mask' = MaskRows(bias_mask, PaddedRow1(r0), bias_k)
                /\ bias_row1' = Append(bias_row1, [r0 |-> r0, row1 |-> PaddedRow1(r0)])
                /\ bias_k' = bias_k + 1
                /\ bias_pc' = IF bias_k = BiasFrames THEN "stack" ELSE "check"
                /\ UNCHANGED bias_out
    /\ UNCHANGED <<bias_cube, bias_kw>>
    /\ UNCHANGED <<core_vars, run_vars, sx_vars, cw_vars, om_vars, sky_vars,
                 fn_vars, flat_vars>>

\* stack,extras = stack_image_cube(biasCube,**kwargs), the repair of the
\* fully masked pixels, stack.filled() and fits.write
BiasStackWrite ==
    /\ bias_pc = "stack"
    /\ LET r == stack_bias_frames(bias_cube, bias_mask, bias_kw)
       IN  /\ bias_out' = [err |-> r.err, stack |-> r.stack]
           /\ bias_pc' = IF r.err = "none" THEN "done" ELSE "error"
    /\ UNCHANGED <<bias_cube, bias_mask, bias_kw, bias_k, bias_row1>>
    /\ UNCHANGED <<core_vars, run_vars, sx_vars, cw_vars, om_vars, sky_vars,
                 fn_vars, flat_vars>>

BiasNext == BiasNoCheck \/ BiasCheckFrame \/ BiasStackWrite

(***************************************************************************)
(* FileNameMap.  A path is a sequence of characters; NoneStr is None.      *)
(***************************************************************************)
NoneStr == <<"None">>
Slash == "/"
DotFits == <<".", "f", "i", "t", "s">>
DotGz == <<".", "g", "z">>

\* s[i:j] for 0 <= i, j (Python slice of a str)
StrSlice(s, i, j) ==
    IF j <= i THEN <<>> ELSE SubSeq(s, i + 1, IF j > Len(s) THEN Len(s) ELSE j)
\* s.startswith(t) from offset i, and s.endswith(t)
MatchAt(s, t, i) == i + Len(t) <= Len(s) /\ SubSeq(s, i + 1, i + Len(t)) = t
endswith(s, t) == Len(t) <= Len(s) /\ MatchAt(s, t, Len(s) - Len(t))

\* s.rfind('/') + 1
AfterLastSlash(s) ==
    LET at == {i \in 1..Len(s) : s[i] = Slash}
    IN  IF at = {} THEN 0 ELSE CHOOSE i \in at : \A j \in at : j <= i

\* os.path.basename and os.path.dirname (posixpath): the head loses its
\* trailing slashes unless it is made of slashes only
basename(p) == StrSlice(p, AfterLastSlash(p), Len(p))
RECURSIVE rstripSlash(_)
rstripSlash(s) ==
    IF s # <<>> /\ s[Len(s)] = Slash THEN rstripSlash(SubSeq(s, 1, Len(s) - 1))
    ELSE s
dirname(p) ==
    LET head == StrSlice(p, 0, AfterLastSlash(p))
    IN  IF head # <<>> /\ \E i \in 1..Len(head) : head[i] # Slash
        THEN rstripSlash(head) ELSE head

\* os.path.join(a, b)
pathjoin(a, b) ==
    IF b # <<>> /\ b[1] = Slash THEN b
    ELSE IF a = <<>> \/ a[Len(a)] = Slash THEN a \o b
    ELSE a \o <<Slash>> \o b

\* s.replace(old, new): every non-overlapping occurrence, from the left
RECURSIVE ReplaceFrom(_, _, _, _)
ReplaceFrom(s, old, new, i) ==
    IF i >= Len(s) THEN <<>>
    ELSE IF MatchAt(s, old, i)
        THEN new \o ReplaceFrom(s, old, new, i + Len(old))
    ELSE <<s[i + 1]>> \o ReplaceFrom(s, old, new, i + 1)
replace(s, old, new) == ReplaceFrom(s, old, new, 0)

\* FileNameMap.__call__
FileNameMap(map, fileName) ==
    LET newDir == IF map.newDir = NoneStr THEN dirname(fileName) ELSE map.newDir
        fn0 == basename(fileName)
        fn1 == IF map.strip_gz /\ endswith(fn0, DotGz)
               THEN StrSlice(fn0, 0, Len(fn0) - 3) ELSE fn0
        fn2 == IF map.newSuffix # NoneStr
               THEN replace(fn1, DotFits, map.newSuffix \o DotFits) ELSE fn1
    IN  pathjoin(newDir, fn2)

\* ---- inputs: a directory part, a stem and an extension
FnDirs == {<<>>, <<"d", "/">>, <<"d", "/", "/">>, <<"/">>, <<"/", "d", "/">>}
FnStems == {<<"a">>, <<"a">> \o DotFits}
FnExts == {DotFits, DotFits \o DotGz, <<".", "f", "i", "t">>}
FnNewDirs == {NoneStr, <<"o">>, <<"o", "/">>}
FnSuffixes == {NoneStr, <<"_", "p">>}
FnMaps == [newDir : FnNewDirs, newSuffix : FnSuffixes, strip_gz : BOOLEAN]

NamesIdle == fn_pc = "idle" /\ fn_map = <<>> /\ fn_in = <<>> /\ fn_out = <<>>

NamesInit ==
    /\ fn_pc = "call"
    /\ fn_map \in FnMaps
    /\ \E d \in FnDirs, st \in FnStems, e \in FnExts : fn_in = d \o st \o e
    /\ fn_out = <<>>

\* one call of the map on fileName
FnCall ==
    /\ fn_pc = "call"
    /\ fn_out' = FileNameMap(fn_map, fn_in)
    /\ fn_pc' = "done"
    /\ UNCHANGED <<fn_map, fn_in>>
    /\ UNCHANGED <<core_vars, run_vars, sx_vars, cw_vars, om_vars, sky_vars,
                 bias_vars, flat_vars>>

NamesNext == FnCall

(***************************************************************************)
(* stack_flat_frames, for one extension, without a bias file and with      *)
(* retain_counts (flatNorm = 1.0).  The caller passes the scale as a       *)
(* function of the cube; kw.scale is the masked array of per-frame factors *)
(* that function returns.                                                  *)
(***************************************************************************)
\* _kwargs.setdefault('ret_scales',True)
FlatKwargs(kw) ==
    IF "ret_scales" \in DOMAIN kw THEN kw ELSE kw @@ [ret_scales |-> TRUE]

\* stack.filled(1.0)
Filled(stack, fill) ==
    [p \in DOMAIN stack |-> IF stack[p].ok THEN stack[p].v ELSE FInt(fill)]

\* the body of the loop over the extensions: what is written to the flat
\* file and to the variance file, or the error raised.  extras[0] of an
\* empty list raises IndexError, and the variance, an ndarray, has no
\* method filled
stack_flat_frames(cube, kw) ==
    LET r == stack_image_cube(cube, [p \in DOMAIN cube |-> {}], FlatKwargs(kw))
    IN  IF r.err # "none" THEN [err |-> r.err]
        ELSE IF r.extras = <<>> THEN [err |-> "IndexError"]
        ELSE IF r.extras[1].kind # "scales" THEN [err |-> "AttributeError"]
        ELSE [err |-> "none",
              flat |-> Filled(r.stack, 1),
              FLTSCL |-> r.extras[1].val,
              var |-> IF kw.with_variance THEN <<r.extras[1]>> ELSE <<>>]

\* ---- inputs
FlatFrames == 3
FlatPix == 2
FlatMaxVal == 2
FlatCubes == [1..FlatPix -> [1..FlatFrames -> 1..FlatMaxVal]]
FlatScales == {[k \in 1..FlatFrames |-> 1], [k \in 1..FlatFrames |-> k]}
FlatBaseKwargs ==
    [reject : {"None", "minmax"}, method : {"absent"}, clip_iters : {-1},
     scale : FlatScales, with_variance : BOOLEAN]
FlatKwargsInputs ==
    FlatBaseKwargs \cup
    {kw @@ [ret_scales |-> b] : kw \in FlatBaseKwargs, b \in BOOLEAN}
NoFlat == [err |-> "pending"]

FlatIdle ==
    flat_pc = "idle" /\ flat_cube = <<>> /\ flat_kw = <<>> /\ flat_out = NoFlat

FlatInit ==
    /\ flat_pc = "open"
    /\ flat_cube \in FlatCubes
    /\ flat_kw \in FlatKwargsInputs
    /\ flat_out = NoFlat

\* the output files are opened and their primary headers written
FlatOpen ==
    /\ flat_pc = "open"
    /\ flat_pc' = "extn"
    /\ UNCHANGED <<flat_cube, flat_kw, flat_out>>
    /\ UNCHANGED <<core_vars, run_vars, sx_vars, cw_vars, om_vars, sky_vars,
                 bias_vars, fn_vars>>

\* the extension is stacked and written
FlatExtension ==
    /\ flat_pc = "extn"
    /\ flat_out' = stack_flat_frames(flat_cube, flat_kw)
    /\ flat_pc' = IF flat_out'.err = "none" THEN "done" ELSE "error"
    /\ UNCHANGED <<flat_cube, flat_kw>>
    /\ UNCHANGED <<core_vars, run_vars, sx_vars, cw_vars, om_vars, sky_vars,
                 bias_vars, fn_vars>>

FlatNext == FlatOpen \/ FlatExtension

IoIdle ==
    /\ RunIdle /\ SextractIdle /\ WorkersIdle /\ OrientIdle /\ SkyIdle
    /\ BiasIdle
    /\ NamesIdle
    /\ FlatIdle


(***************************************************************************)
(* Specifications: one per stage, the other stages idle                    *)
(***************************************************************************)
\* the start of a stack run: the other stages are idle
InitStack == StackInit /\ PolyfitIdle /\ SuperskyIdle /\ CombineIdle /\ OverscanIdle /\ IoIdle
SpecStack == InitStack /\ [][StackNext]_vars

\* the start of a polyfit run: the other stages are idle
InitPolyfit == StackIdle /\ PolyfitInit /\ SuperskyIdle /\ CombineIdle /\ OverscanIdle /\ IoIdle
SpecPolyfit == InitPolyfit /\ [][PolyfitNext]_vars

\* the start of a supersky run: the other stages are idle
InitSupersky == StackIdle /\ PolyfitIdle /\ SuperskyInit /\ CombineIdle /\ OverscanIdle /\ IoIdle
SpecSupersky == InitSupersky /\ [][SuperskyNext]_vars

\* the start of a combine run: the other stages are idle
InitCombine == StackIdle /\ PolyfitIdle /\ SuperskyIdle /\ CombineInit /\ OverscanIdle /\ IoIdle
SpecCombine == InitCombine /\ [][CombineNext]_vars

\* the start of a overscan run: the other stages are idle
InitOverscan == StackIdle /\ PolyfitIdle /\ SuperskyIdle /\ CombineIdle /\ OverscanInit /\ IoIdle
SpecOverscan == InitOverscan /\ [][OverscanNext]_vars

\* the start of a subtract_overscan call on a file list: the other stages
\* are idle
InitRun ==
    /\ StackIdle /\ PolyfitIdle /\ SuperskyIdle /\ CombineIdle /\ OverscanIdle
    /\ RunInit /\ SextractIdle /\ WorkersIdle /\ OrientIdle /\ SkyIdle
    /\ BiasIdle
    /\ NamesIdle
    /\ FlatIdle
SpecRun == InitRun /\ [][RunNext]_vars

\* the start of a sextract_pass1 call: the other stages are idle
InitSextract ==
    /\ StackIdle /\ PolyfitIdle /\ SuperskyIdle /\ CombineIdle /\ OverscanIdle
    /\ RunIdle /\ SextractInit /\ WorkersIdle /\ OrientIdle /\ SkyIdle
    /\ BiasIdle
    /\ NamesIdle
    /\ FlatIdle
SpecSextract == InitSextract /\ [][SextractNext]_vars

\* the start of concurrent combine_ccds calls: the other stages are idle
InitWorkers ==
    /\ StackIdle /\ PolyfitIdle /\ SuperskyIdle /\ CombineIdle /\ OverscanIdle
    /\ RunIdle /\ SextractIdle /\ WorkersInit /\ OrientIdle /\ SkyIdle
    /\ BiasIdle
    /\ NamesIdle
    /\ FlatIdle
SpecWorkers == InitWorkers /\ [][WorkersNext]_vars

\* the start of an _orient_mosaic call: the other stages are idle
InitOrient ==
    /\ StackIdle /\ PolyfitIdle /\ SuperskyIdle /\ CombineIdle /\ OverscanIdle
    /\ RunIdle /\ SextractIdle /\ WorkersIdle /\ OrientInit /\ SkyIdle
    /\ BiasIdle
    /\ NamesIdle
    /\ FlatIdle
SpecOrient == InitOrient /\ [][OrientNext]_vars

\* the start of a subtract_sky call on one frame: the other stages are idle
InitSky ==
    /\ StackIdle /\ PolyfitIdle /\ SuperskyIdle /\ CombineIdle /\ OverscanIdle
    /\ RunIdle /\ SextractIdle /\ WorkersIdle /\ OrientIdle /\ SkyInit
    /\ BiasIdle
    /\ NamesIdle
    /\ FlatIdle
SpecSky == InitSky /\ [][SkyNext]_vars

\* the start of a stack_bias_frames call: the other stages are idle
InitBias ==
    /\ StackIdle /\ PolyfitIdle /\ SuperskyIdle /\ CombineIdle /\ OverscanIdle
    /\ RunIdle /\ SextractIdle /\ WorkersIdle /\ OrientIdle /\ SkyIdle
    /\ BiasInit
    /\ NamesIdle
    /\ FlatIdle
SpecBias == InitBias /\ [][BiasNext]_vars

\* the start of the Names stage: the other stages are idle
InitNames ==
    /\ StackIdle /\ PolyfitIdle /\ SuperskyIdle /\ CombineIdle /\ OverscanIdle
    /\ RunIdle /\ SextractIdle /\ WorkersIdle /\ OrientIdle /\ SkyIdle
    /\ BiasIdle
    /\ NamesInit
    /\ FlatIdle
SpecNames == InitNames /\ [][NamesNext]_vars

\* the start of the Flat stage: the other stages are idle
InitFlat ==
    /\ StackIdle /\ PolyfitIdle /\ SuperskyIdle /\ CombineIdle /\ OverscanIdle
    /\ RunIdle /\ SextractIdle /\ WorkersIdle /\ OrientIdle /\ SkyIdle
    /\ BiasIdle
    /\ NamesIdle
    /\ FlatInit
SpecFlat == InitFlat /\ [][FlatNext]_vars


(***************************************************************************)
(* Properties of the stacking stage (SpecStack)                            *)
(***************************************************************************)
StackDone(entry) == stk_pc = "done" /\ stk_entry = entry

\* the frames of pixel p that still contribute to the finished stack
Contributors(p) == DOMAIN imCube[p] \ stk_result.mask[p]

\* C1: stack_image_cube with reject='minmax' on exactly 3 frames leaves, at
\* every pixel, exactly one unmasked contributor (one maximum and one minimum
\* removed per pixel), and the stacked value is that contributor
C1_MinMaxLeavesOneContributor ==
    (/\ StackDone("stack_image_cube")
     /\ stk_kw.reject = "minmax"
     /\ Len(imCube[1]) = 3)
    => /\ stk_result.err = "none"
       /\ \A p \in DOMAIN imCube :
            /\ Cardinality(Contributors(p)) = 1
            /\ \E k \in Contributors(p) :
                 /\ stk_result.stack[p] = Val(FInt(imCube[p][k]))
                 /\ \E hi, lo \in DOMAIN imCube[p] \ {k} :
                      /\ hi # lo
                      /\ \A j \in DOMAIN imCube[p] :
                           imCube[p][lo] <= imCube[p][j]
                           /\ imCube[p][j] <= imCube[p][hi]

\* the pixels of a bias cube that hold the 10000-count outlier in some frame
OutlierPixels ==
    {p \in DOMAIN imCube : \E k \in DOMAIN imCube[p] : imCube[p][k] = 100}

\* C2: stacking 5 bias frames at 500 counts with one 10000-count outlier,
\* sigma-clip rejection and default parameters, excludes the outlier: the
\* stacked value of that pixel is 500
C2_SigmaClipExcludesOutlier ==
    (/\ stk_pc = "done"
     /\ imCube \in BiasCubes
     /\ OutlierPixels # {}
     /\ stk_kw.reject = "absent"
     /\ stk_kw.method = "absent")
    => /\ stk_result.err = "none"
       /\ \A p \in OutlierPixels : stk_result.stack[p] = Val(BiasLevel)


(***************************************************************************)
(* Properties of the sky fit (SpecPolyfit)                                 *)
(***************************************************************************)
\* C3: a rebinned cell of the CCD just processed by bok_polyfit enters the
\* fit if and only if at most one third of its nbin x nbin pixels were
\* rejected (masked or sigma-clipped); in particular a cell without any
\* rejected pixel is kept
C3_CellKeptIffAtMostOneThirdRejected ==
    pf_ccd > 1 =>
        \A c \in 1..NCells :
            c \in pf_cells.kept <=> 3 * pf_cells.nbad[c] <= pf_nbin * pf_nbin


GainDone == cc_out.ccdNum # 0
OutGrp == extGroup(cc_out.ccdNum)
OutKey(name, i, num) == AmpKey(name, OutGrp[i], i, num)
\* the sky count of the centre amplifier of the CCD just processed, after
\* the nominal and the intra-CCD gain
CenterSkyCounts ==
    LET ci == CHOOSE i \in 1..4 : OutGrp[i] = bokCenterAmps[cc_out.ccdNum]
    IN  FMul(FInt(cc_in[ci].c),
             FMul(cc_out.hdr[OutKey("GAIN", ci, 1)],
                  cc_out.hdr[OutKey("GAIN", ci, 2)]))

\* C5 (states): with sky gain correction, no reference exists when the first
\* CCD of a file is about to be read; CCD1 runs without a reference, gets
\* CCDGAIN3 = 1 and its centre-amplifier sky count is the reference; CCDs
\* 2..4 receive that reference and get CCDGAIN3 = reference / own sky count
C5_ReferenceStates ==
    cc_skyGainCor =>
        /\ (cc_pc = "read" /\ cc_ccdNum = 1) => cc_refSkyCounts = None
        /\ (GainDone /\ cc_out.ccdNum = 1) =>
              /\ cc_out.skyIn = None
              /\ cc_out.hdr["CCDGAIN3"] = FInt(1)
              /\ cc_out.skyCounts = Some(CenterSkyCounts)
              /\ cc_refSkyCounts = cc_out.skyCounts
        /\ (GainDone /\ cc_out.ccdNum > 1) =>
              /\ cc_out.skyIn.some
              /\ cc_out.skyIn = cc_refSkyCounts
              /\ cc_out.hdr["CCDGAIN3"] = FDiv(cc_refSkyCounts.v, CenterSkyCounts)
              /\ FMul(cc_out.hdr["CCDGAIN3"], CenterSkyCounts) = cc_refSkyCounts.v

\* C5 (steps): the reference changes only when a file is opened (reset to
\* none) and when CCD1 has been processed (set to CCD1's sky count)
C5_ReferenceSteps ==
    cc_refSkyCounts' # cc_refSkyCounts =>
        \/ cc_pc = "file" /\ cc_refSkyCounts' = None
        \/ /\ cc_pc = "ccd" /\ cc_ccdNum = 1 /\ cc_refSkyCounts = None
           /\ cc_refSkyCounts' = cc_out'.skyCounts

\* C5: in combine_ccds with sky gain correction, for every file, CCD1 is
\* processed without a reference and gets CCDGAIN3 = 1.0; the reference is
\* set exactly once, to CCD1's centre-amplifier sky count, is passed unchanged
\* to CCDs 2, 3 and 4, each getting CCDGAIN3 = reference / own sky count; and
\* the reference is reset to none at the start of each file
C5_ReferenceSetOncePerFile ==
    [](C5_ReferenceStates) /\ [][C5_ReferenceSteps]_vars

\* a CCD after the first, in the second file, whose inter-CCD factor is not 1
C5_Witness ==
    /\ cc_skyGainCor /\ GainDone /\ cc_file = 2 /\ cc_out.ccdNum = 4
    /\ cc_out.hdr["CCDGAIN3"] # FInt(1)
    /\ cc_refSkyCounts = cc_out.skyIn


\* the sky counts of amplifier i of the CCD just processed: its raw sky
\* level times its nominal gain
AmpSkyCounts(i) == FMul(FInt(cc_in[i].a), cc_inputGain[OutGrp[i]])
OutRefIndex == CHOOSE i \in 1..4 : OutGrp[i] = refAmps[cc_out.ccdNum]

\* C6: with sky gain correction each amplifier image returned by
\* multiply_gain is the input image times nominal gain x intra-CCD factor x
\* inter-CCD factor, the intra-CCD factor being the reference amplifier's sky
\* counts over the amplifier's own, and the header records GAINnnX1 = nominal
\* gain, GAINnnX2 = intra-CCD factor, CCDGAIN3 = inter-CCD factor and
\* SKYCnnX1 = raw sky level
C6_OutputIsInputTimesRecordedGains ==
    (cc_skyGainCor /\ GainDone) =>
        \A i \in 1..4 :
            LET g1 == cc_out.hdr[OutKey("GAIN", i, 1)]
                g2 == cc_out.hdr[OutKey("GAIN", i, 2)]
                g3 == cc_out.hdr["CCDGAIN3"]
                g == FMul(g1, FMul(g2, g3))
            IN  /\ g1 = cc_inputGain[OutGrp[i]]
                /\ g2 = FDiv(AmpSkyCounts(OutRefIndex), AmpSkyCounts(i))
                /\ g3 = IF cc_out.skyIn.some
                            THEN FDiv(cc_out.skyIn.v, CenterSkyCounts)
                            ELSE FInt(1)
                /\ cc_out.hdr[OutKey("SKYC", i, 1)] = FInt(cc_in[i].a)
                /\ cc_out.ampIms[i].a = FMul(FInt(cc_in[i].a), g)
                /\ cc_out.ampIms[i].c = FMul(FInt(cc_in[i].c), g)

\* a CCD whose three factors all differ from 1 on some amplifier
C6_Witness ==
    /\ cc_skyGainCor /\ GainDone
    /\ cc_out.hdr["CCDGAIN3"] # FInt(1)
    /\ \E i \in 1..4 :
         /\ cc_out.hdr[OutKey("GAIN", i, 1)] # FInt(1)
         /\ cc_out.hdr[OutKey("GAIN", i, 2)] # FInt(1)
         /\ cc_out.gain[i] # cc_out.hdr[OutKey("GAIN", i, 1)]

\* C7: with sky_gain_correct disabled the gains applied are exactly the
\* nominal input gains, each output image is input x nominal gain, only the
\* GAINnnX1 keys are added to the header, no sky count is returned and no
\* reference reaches a later CCD
C7_NominalGainOnly ==
    ~cc_skyGainCor =>
        /\ cc_refSkyCounts = None
        /\ GainDone =>
             /\ cc_out.skyCounts = None
             /\ cc_out.skyIn = None
             /\ DOMAIN cc_out.hdr =
                  DOMAIN InHdr \cup {OutKey("GAIN", i, 1) : i \in 1..4}
             /\ \A k \in DOMAIN InHdr : cc_out.hdr[k] = InHdr[k]
             /\ \A i \in 1..4 :
                  /\ cc_out.gain[i] = cc_inputGain[OutGrp[i]]
                  /\ cc_out.hdr[OutKey("GAIN", i, 1)] = cc_inputGain[OutGrp[i]]
                  /\ cc_out.ampIms[i].a = FMul(FInt(cc_in[i].a), cc_out.gain[i])
                  /\ cc_out.ampIms[i].c = FMul(FInt(cc_in[i].c), cc_out.gain[i])

\* a later CCD processed without sky correction, its amplifiers at different
\* sky levels and with nominal gains other than 1
C7_Witness ==
    /\ ~cc_skyGainCor /\ GainDone /\ cc_out.ccdNum = 3
    /\ \E i, j \in 1..4 : AmpSkyCounts(i) # AmpSkyCounts(j)
    /\ \E i \in 1..4 : cc_out.gain[i] = FInt(2)

\* C8: with sky gain correction, four amplifiers whose sky level times
\* nominal gain is identical all get intra-CCD factor 1.0, and the reference
\* amplifier's intra-CCD factor is 1.0 whatever the sky levels
C8_IntraCcdFactorOne ==
    (cc_skyGainCor /\ GainDone) =>
        /\ cc_out.hdr[OutKey("GAIN", OutRefIndex, 2)] = FInt(1)
        /\ (\A i, j \in 1..4 : AmpSkyCounts(i) = AmpSkyCounts(j)) =>
              \A i \in 1..4 : cc_out.hdr[OutKey("GAIN", i, 2)] = FInt(1)

\* identical sky counts from different raw levels, on a CCD whose reference
\* amplifier is not the first of its group
C8_Witness ==
    /\ cc_skyGainCor /\ GainDone /\ OutRefIndex # 1
    /\ \A i, j \in 1..4 : AmpSkyCounts(i) = AmpSkyCounts(j)
    /\ \E i, j \in 1..4 : cc_in[i].a # cc_in[j].a


(***************************************************************************)
(* Properties of the overscan subtraction (SpecOverscan)                   *)
(***************************************************************************)
\* the raw array by the regions of its header: the data section, the
\* overscan columns, and every row below the data section
DataY2 == os_hdr.DATASEC[4]
RawData ==
    Slice2D(os_raw, os_hdr.DATASEC[3] - 1, DataY2,
            os_hdr.DATASEC[1] - 1, os_hdr.DATASEC[2])
RawCols ==
    Slice2D(os_raw, os_hdr.BIASSEC[3] - 1, os_hdr.BIASSEC[4],
            os_hdr.BIASSEC[1] - 1, os_hdr.BIASSEC[2])
RawStrip == Slice2D(os_raw, DataY2, os_hdr.NAXIS2, 0, os_hdr.NAXIS1)

\* C9: extract_overscan returns a row strip, made of all the rows from the
\* end of the DATASEC rows to the end of the array, whenever the raw array
\* has at least one row beyond the data section, and returns none only when
\* it has no such row
C9_RowStripIffExtraRows ==
    os_pc # "extract" =>
        /\ os_rows.some <=> os_hdr.NAXIS2 > DataY2
        /\ (os_pc = "colbias" /\ os_rows.some) => os_rows.arr = RawStrip


\* the tail of a raw row strip: its last TailCols columns
RawTail(strip) ==
    Slice2D(strip, 0, NRowsOf(strip), os_hdr.NAXIS1 - TailCols, os_hdr.NAXIS1)
\* arr[r][c] - bias[r] and arr[r][c] - bias[c] for unmasked biases
LessPerRow(arr, bias) ==
    [r \in DOMAIN arr |-> [c \in DOMAIN arr[r] |-> FSub(arr[r][c], bias[r].v)]]
LessPerCol(arr, bias) ==
    [r \in DOMAIN arr |-> [c \in DOMAIN arr[r] |-> FSub(arr[r][c], bias[c].v)]]

\* C10: when a row strip exists subtract_overscan (1) subtracts the
\* column-strip bias from the data, (2) fits a column-direction bias to the
\* last 20 columns of the row strip and subtracts it from the remaining
\* columns of the strip, (3) fits the row-direction bias to that corrected
\* remainder, never to the uncorrected strip, and subtracts it from every
\* data row, truncated to the data's column count
C10_RowStripOrder ==
    (os_rows.some /\ os_pc \in {"tail", "rowbias", "write", "done"}) =>
        LET strip == RawStrip
            data == RawData
            colfit == fit_overscan(RawCols, os_kw, "columns").fit
            tailfit == fit_overscan(RawTail(strip), os_kw, "columns").fit
            remainder ==
                LessPerRow(Slice2D(strip, 0, NRowsOf(strip),
                                   0, os_hdr.NAXIS1 - TailCols), tailfit)
            rowfit == fit_overscan(remainder, os_kw, "rows").fit
            step1 == LessPerRow(data, colfit)
            step3 == LessPerCol(step1, SubSeq(rowfit, 1, NColsOf(data)))
        IN  /\ os_pc = "tail" =>
                 /\ os_data = step1
                 /\ os_rows.arr = strip
            /\ os_pc = "rowbias" =>
                 /\ os_data = step1
                 /\ os_tailbias = tailfit
                 /\ os_rows.arr = remainder
            /\ os_pc \in {"write", "done"} =>
                 /\ os_rowbias = rowfit
                 /\ \A c \in DOMAIN os_rowbias : os_rowbias[c].ok
                 /\ os_data = step3
            /\ os_pc = "done" => os_out.data = step3

\* a file written after all three steps, from a strip whose level differs
\* from row to row and from column to column and is wider than the data
C10_Witness ==
    /\ os_pc = "done" /\ os_rows.some /\ os_out.err = "none"
    /\ os_tailbias[1] # os_tailbias[2]
    /\ os_rowbias[1] # os_rowbias[2]
    /\ NColsOf(os_out.data) < Len(os_rowbias)
    /\ os_out.data[1][1] # FSub(RawData[1][1], os_colbias[1].v)


\* the raw array is a synthetic image: data section at d, all else at v
ConstantImage(v, d) ==
    \A r \in DOMAIN os_raw : \A c \in DOMAIN os_raw[r] :
        os_raw[r][c] =
            FInt(IF /\ r >= os_hdr.DATASEC[3] /\ r <= DataY2
                    /\ c >= os_hdr.DATASEC[1] /\ c <= os_hdr.DATASEC[2]
                 THEN d ELSE v)

\* C11: for a raw amplifier whose overscan pixels all equal v = 100 and whose
\* data pixels all equal d = 5000, fit_overscan (default method and
\* 'mean_value') returns v at every row of the strip it is given, and
\* subtract_overscan writes a data section whose every pixel is d - v = 4900,
\* with or without an overscan row strip
C11_ConstantOverscanSubtracted ==
    (/\ ConstantImage(OverscanValue, DataValue)
     /\ os_kw.method \in {"absent", "mean_value"}) =>
        /\ os_pc # "error"
        /\ os_pc \in {"tail", "rowbias", "write", "done"} =>
             \A r \in DOMAIN os_colbias : os_colbias[r] = Val(FInt(OverscanValue))
        /\ os_pc \in {"rowbias", "write", "done"} /\ os_rows.some =>
             \A r \in DOMAIN os_tailbias :
                os_tailbias[r] = Val(FInt(OverscanValue))
        /\ os_pc = "done" =>
             /\ os_out.err = "none"
             /\ \A r \in DOMAIN os_out.data : \A c \in DOMAIN os_out.data[r] :
                  os_out.data[r][c] = FInt(DataValue - OverscanValue)


\* C12: the OSCANSUB card written for an extension names the fit method that
\* fit_overscan applied to it (also when the caller passes no method), and
\* OSCANMED is the median of the column-bias model that was subtracted.
C12_HeaderNamesAppliedMethod ==
    os_pc = "done" =>
        /\ os_out.OSCANSUB = "method=" \o FitMethod(os_kw)
        /\ os_out.OSCANMED = FMedian([r \in DOMAIN os_colbias |-> os_colbias[r].v])


(***************************************************************************)
(* Properties of a subtract_overscan run on a file list (SpecRun)          *)
(***************************************************************************)
RunEnded == run_pc \in {"returned", "aborted"}

\* C13: when subtract_overscan was called with write_overscan_image and has
\* ended, by a normal return or by an exception, neither scratch file of
\* either OverscanCollection exists any more.
C13_ScratchFilesRemoved ==
    (RunEnded /\ run_kw.write_overscan_image) =>
        \A p \in ScratchPaths : ~run_fs[p].exists


\* the output of frame i holds the primary header and the extension, and
\* nothing else
CompleteOutput(f) == f.units = <<"primary", Extn>>

\* C14: when subtract_overscan is left by an exception, an output path that
\* held no file before the call holds a file only if that file was written
\* completely.
C14_NoPartialOutputAfterAbort ==
    run_pc = "aborted" =>
        \A p \in OutPaths :
            (~run_fs0[p].exists /\ run_fs[p].exists) => CompleteOutput(run_fs[p])

\* C15: when an unknown fit method makes subtract_overscan fail, it fails
\* before any file is opened, created or written: the files are as they
\* were when the function was called.
C15_UnknownMethodFailsBeforeIO ==
    (run_pc = "aborted" /\ run_err = "ValueError") => run_fs = run_fs0

\* C16: an output path that holds a file before the call keeps that file
\* unchanged, and once the run has reached the frame of such a path it has
\* failed with OutputExistsError.
C16_ExistingOutputRefused ==
    \A i \in 1..RunFiles :
        run_fs0[OutPath(i)].exists =>
            /\ run_fs[OutPath(i)] = run_fs0[OutPath(i)]
            /\ (run_i > i \/ (run_i = i /\ run_pc \notin {"start", "open"})) =>
                   run_err = "OutputExistsError"

UnknownConfig(kw) ==
    \/ KwGet(kw, "reject", "sigma_clip") \notin {"sigma_clip", "minmax"}
    \/ KwGet(kw, "method", "mean") \notin
           {"mean", "mean_value", "median_value", "cubic_spline"}

\* C17: with an unrecognized rejection or fit method string in the keywords
\* no extension is processed: the run never gets past the fits of its first
\* extension.
C17_UnknownStringNeverAccepted ==
    UnknownConfig(run_kw) => run_pc \notin {"close", "finish", "returned"}


(***************************************************************************)
(* Properties of sextract_pass1 (SpecSextract)                             *)
(***************************************************************************)
\* the subprocess of frame i has been waited for
SxReturned(i) == sx_i > i \/ (sx_i = i /\ sx_pc \in {"mask", "aborted"})

\* C18: the object mask of a frame is read and rewritten only after the
\* subprocess of that frame has terminated; and when that subprocess
\* failed, the function reports it (it is left by an exception) and reads
\* no CCD of the frame's mask.
C18_MaskOnlyAfterSuccessfulExtraction ==
    \A i \in 1..SxFiles :
        /\ (sx_read[i] # {} \/ sx_mask[i].grown # {}) =>
               sx_proc[i] \in {"ok", "failed"}
        /\ sx_proc[i] \in {"failed", "notfound"} =>
               /\ sx_read[i] = {}
               /\ SxReturned(i) => (sx_pc = "aborted" /\ sx_i = i)


(***************************************************************************)
(* Properties of concurrent combine_ccds calls (SpecWorkers)               *)
(***************************************************************************)
\* C19: two concurrent combine_ccds calls on different input files, with or
\* without an output file map, never read, write or rename the same path.
C19_WorkersShareNoPath ==
    \A v, w \in Workers : v # w => cw_touched[v] \cap cw_touched[w] = {}


(***************************************************************************)
(* Properties of _orient_mosaic (SpecOrient)                               *)
(***************************************************************************)
OrientedLowerLeft == om_pc \in {"header", "done"} /\ om_origin = "lower left"

\* C20: with four (h x w) amplifier images and origin 'lower left' the CCD
\* image has 2w rows of 2h pixels; its first w rows hold
\* flipud(rot90(image 2)) followed by rot90(image 4, 3), its last w rows
\* rot90(image 1) followed by fliplr(rot90(image 3)); pixel by pixel that
\* is the placement written out below, and every input pixel occurs at
\* exactly one place of the CCD image.
C20_MosaicIsRearrangement ==
    OrientedLowerLeft =>
        LET h == NRowsOf(om_ims[1])
            w == NColsOf(om_ims[1])
            out == om_outIm
        IN  /\ NRowsOf(out) = 2 * w
            /\ \A r \in 1..(2 * w) : Len(out[r]) = 2 * h
            /\ Slice2D(out, 0, w, 0, h) = flipud(rot90(om_ims[2], 1))
            /\ Slice2D(out, 0, w, h, 2 * h) = rot90(om_ims[4], 3)
            /\ Slice2D(out, w, 2 * w, 0, h) = rot90(om_ims[1], 1)
            /\ Slice2D(out, w, 2 * w, h, 2 * h) = fliplr(rot90(om_ims[3], 1))
            /\ \A r \in 1..w, c \in 1..h :
                 /\ out[r][c] = om_ims[2][c][r]
                 /\ out[r][h + c] = om_ims[4][h + 1 - c][r]
                 /\ out[w + r][c] = om_ims[1][c][w + 1 - r]
                 /\ out[w + r][h + c] = om_ims[3][h + 1 - c][w + 1 - r]
            /\ \A k \in 1..4, r \in 1..h, c \in 1..w :
                 Cardinality({p \in (1..(2 * w)) \X (1..(2 * h)) :
                                 out[p[1]][p[2]] = om_ims[k][r][c]}) = 1

\* a mosaic of four 2 x 3 images has been made with origin 'lower left'
C20_Witness ==
    /\ om_pc = "done" /\ om_origin = "lower left"
    /\ NRowsOf(om_ims[1]) = 2 /\ NColsOf(om_ims[1]) = 3
    /\ NRowsOf(om_outIm) = 6 /\ NColsOf(om_outIm) = 4
    /\ om_outIm[1][1] = AmpPixel(2, 1, 1)


\* C21: for the same amplifier images the mosaic under origin 'center' has
\* the shape of the mosaic under 'lower left' and is that mosaic with its
\* columns reversed for CCD1, rows and columns reversed for CCD2, unchanged
\* for CCD3, and its rows reversed for CCD4.
C21_CenterIsFlippedLowerLeft ==
    (om_pc \in {"header", "done"} /\ om_origin = "center") =>
        LET ll == _orient_mosaic(om_ims, om_ccdNum, "lower left")
            ny == NRowsOf(ll)
            nx == NColsOf(ll)
        IN  /\ NRowsOf(om_outIm) = ny
            /\ \A r \in 1..ny : Len(om_outIm[r]) = nx
            /\ \A r \in 1..ny, c \in 1..nx :
                 om_outIm[r][c] =
                     IF om_ccdNum = 1 THEN ll[r][nx + 1 - c]
                     ELSE IF om_ccdNum = 2 THEN ll[ny + 1 - r][nx + 1 - c]
                     ELSE IF om_ccdNum = 3 THEN ll[r][c]
                     ELSE ll[ny + 1 - r][c]

\* the mosaic of CCD2 has been made from 2 x 3 images with origin 'center'
C21_Witness ==
    /\ om_pc = "done" /\ om_origin = "center" /\ om_ccdNum = 2
    /\ NRowsOf(om_ims[1]) = 2 /\ NColsOf(om_ims[1]) = 3
    /\ om_outIm[6][4] = AmpPixel(2, 1, 1)


\* sections '[x1:x2,y1:y2]': the number of pixels, containment, overlap
SecArea(s) == (s[2] - s[1] + 1) * (s[4] - s[3] + 1)
SecInside(s, t) == s[1] >= t[1] /\ s[2] <= t[2] /\ s[3] >= t[3] /\ s[4] <= t[4]
SecOverlap(s, t) == s[1] <= t[2] /\ t[1] <= s[2] /\ s[3] <= t[4] /\ t[3] <= s[4]
\* four sections are pairwise disjoint and together cover exactly 'whole'
SecPartition(sec, whole) ==
    /\ \A n \in 1..4 : SecArea(sec[n]) > 0 /\ SecInside(sec[n], whole)
    /\ \A n, m \in 1..4 : n # m => ~SecOverlap(sec[n], sec[m])
    /\ SecArea(sec[1]) + SecArea(sec[2]) + SecArea(sec[3]) + SecArea(sec[4])
           = SecArea(whole)

\* C22: for a mosaic of ny rows and nx columns the header gets
\* DATASEC = [1:nx,1:ny]; the DETSEC sections of CCD 1..4 of that shape are
\* pairwise disjoint and cover exactly [1:2*nx,1:2*ny]; for nx = 4096 and
\* ny = 4032 what they cover is the DETSIZE written by combine_ccds.
C22_DetsecTilesDetector ==
    om_pc = "done" =>
        LET ny == NRowsOf(om_outIm)
            nx == NColsOf(om_outIm)
        IN  /\ om_hdr.DATASEC = <<1, nx, 1, ny>>
            /\ om_hdr.DETSEC = DETSEC(nx, ny, om_ccdNum)
            /\ SecPartition([n \in 1..4 |-> DETSEC(nx, ny, n)],
                            <<1, 2 * nx, 1, 2 * ny>>)
            /\ SecPartition([n \in 1..4 |-> DETSEC(4096, 4032, n)], DETSIZE)

\* the header of CCD4 has been written for a mosaic of 6 rows and 4 columns
C22_Witness ==
    /\ om_pc = "done" /\ om_ccdNum = 4
    /\ NRowsOf(om_outIm) = 6 /\ NColsOf(om_outIm) = 4
    /\ om_hdr.DETSEC = <<5, 8, 1, 6>>


(***************************************************************************)
(* Properties of subtract_sky (SpecSky)                                    *)
(***************************************************************************)
\* the sky coordinates of pixel [r][c] of CCD n
SkyXY(n, r, c) == bok_getxy(sky_hdr[n], "sky", c - 1, r - 1)

\* C23: of every CCD written by subtract_sky, the pixel at the coordinate
\* origin (0,0) is unchanged; when the fitted surface has no gradient every
\* pixel is unchanged; and SKYVAL of every CCD is the value of the fit at
\* the origin, the same in all four headers.
C23_OnlyGradientRemoved ==
    \A n \in 1..Len(sky_out) :
        /\ \A r \in 1..SkyH, c \in 1..SkyW :
             (SkyXY(n, r, c).x = 0 /\ SkyXY(n, r, c).y = 0) =>
                 sky_out[n].data[r][c] = sky_in[n][r][c]
        /\ (sky_p.c1_0 = 0 /\ sky_p.c0_1 = 0) => sky_out[n].data = sky_in[n]
        /\ sky_out[n].SKYVAL = sky_p.c0_0
        /\ sky_out[n].SKYVAL = sky_out[1].SKYVAL

\* all four CCDs are written; the fit has a non-zero origin value and a
\* gradient, CCD1 holds the origin pixel and its other pixels were changed
C23_Witness ==
    /\ sky_pc = "done" /\ Len(sky_out) = 4
    /\ sky_p.c0_0 # 0 /\ sky_p.c1_0 # 0
    /\ SkyXY(1, 2, 1).x = 0 /\ SkyXY(1, 2, 1).y = 0
    /\ sky_out[1].data[2][2] # sky_in[1][2][2]


\* the rows of frame k that are masked, and the 0-indexed first row of frame
\* k among the top 200 whose value lies within 3 sigma of the mean of the
\* central region of the cube as it was read
MaskedRowsOf(k) == {p \in DOMAIN bias_mask : k \in bias_mask[p]}
FirstRowWithin3Sigma(k) ==
    LET st == CentralStats(bias_cube, [p \in DOMAIN bias_cube |-> {}])
        within(r) ==
            LET d == FSub(FInt(bias_cube[r + 1][k]), st.mean)
            IN  ~FLess(FMul(FInt(9), st.var), FMul(d, d))
    IN  CHOOSE r \in 0..(EdgeRows - 1) :
            within(r) /\ \A q \in 0..(r - 1) : ~within(q)

\* C24: with check_dropped_rows, once the frames are checked the rows masked
\* in frame k are exactly the first r rows, where r0 is the first of the top
\* 200 rows within 3 sigma of the central mean, r = r0 when r0 <= 10 and
\* r = r0 + 3 when r0 > 10; and every pixel of the written bias is defined
C24_DroppedRowsMaskedPerFrame ==
    /\ (bias_kw # <<>> /\ bias_kw.check_dropped_rows /\ bias_pc \in {"stack", "done"}) =>
          \A k \in 1..BiasFrames :
              LET r0 == FirstRowWithin3Sigma(k)
              IN  MaskedRowsOf(k) = 1..(IF r0 <= 10 THEN r0 ELSE r0 + 3)
    /\ bias_pc = "done" => \A p \in DOMAIN bias_out.stack : bias_out.stack[p].ok
C24_Witness ==
    /\ bias_pc = "done" /\ bias_kw.check_dropped_rows
    /\ \E k \in 1..BiasFrames : Cardinality(MaskedRowsOf(k)) = 10
    /\ \E k \in 1..BiasFrames : Cardinality(MaskedRowsOf(k)) = 14
    /\ \E p \in DOMAIN bias_mask : bias_mask[p] = 1..BiasFrames


\* C25: the path returned has the directory newDir when given and the
\* input's directory otherwise; its basename is the input's, without a
\* trailing '.gz' when strip_gz is set, and with newSuffix inserted exactly
\* once, immediately before the final '.fits'; with no newDir, no newSuffix
\* and no '.gz' the path returned is the input path
C25_SuffixOnceBeforeFinalFits ==
    fn_pc = "done" =>
        LET b0 == basename(fn_in)
            b1 == IF fn_map.strip_gz /\ endswith(b0, DotGz)
                  THEN SubSeq(b0, 1, Len(b0) - 3) ELSE b0
            stem == SubSeq(b1, 1, Len(b1) - Len(DotFits))
            dir == IF fn_map.newDir = NoneStr THEN dirname(fn_in) ELSE fn_map.newDir
        IN  /\ (fn_map.newSuffix # NoneStr /\ endswith(b1, DotFits)) =>
                  /\ basename(fn_out) = stem \o fn_map.newSuffix \o DotFits
                  /\ dirname(fn_out) = dirname(pathjoin(dir, b1))
            /\ (fn_map.newDir = NoneStr /\ fn_map.newSuffix = NoneStr
                    /\ ~endswith(b0, DotGz)) => fn_out = fn_in


\* the cube is N identical constant frames of value v
ConstantCube(v) == \A p \in DOMAIN imCube : \A k \in DOMAIN imCube[p] : imCube[p][k] = v

\* C26: stack_image_cube with reject=None and method='mean' on N identical
\* constant frames of value v returns v at every pixel and, when the variance
\* is requested, a variance frame that is 0 at every pixel
C26_ConstantFramesStackToConstant ==
    (/\ stk_pc = "done" /\ stk_entry = "stack_image_cube"
     /\ stk_kw.reject = "None" /\ stk_kw.method \in {"absent", "mean"}) =>
        \A v \in 1..100 : ConstantCube(v) =>
            /\ stk_result.err = "none"
            /\ \A p \in DOMAIN imCube : stk_result.stack[p] = Val(FInt(v))
            /\ stk_kw.with_variance =>
                  /\ Len(stk_result.extras) = 1
                  /\ \A p \in DOMAIN imCube :
                         stk_result.extras[1].val[p] = FInt(0)
C26_Witness ==
    /\ stk_pc = "done" /\ stk_entry = "stack_image_cube"
    /\ stk_kw.reject = "None" /\ stk_kw.method = "absent"
    /\ stk_kw.with_variance /\ ConstantCube(5) /\ Len(imCube[1]) = 5
    /\ stk_result.err = "none" /\ Len(stk_result.extras) = 1


\* the per-pixel variance of the frames of the flat cube as they are stacked
FlatVariance ==
    LET kw == FlatKwargs(flat_kw)
        cube == ScaleCube(flat_cube, kw.scale)
        mask == IF kw.reject = "minmax"
                THEN RejectMinMax(cube, [p \in DOMAIN cube |-> {}])
                ELSE [p \in DOMAIN cube |-> {}]
    IN  [p \in DOMAIN cube |-> MaVarFilled(cube[p], mask[p])]

\* C27: with with_variance, what stack_flat_frames writes to the variance
\* file is the per-pixel variance of the flat stack, not the per-frame
\* scale factors, whatever other optional outputs were requested
C27_VarianceFileHoldsVariance ==
    (flat_pc = "done" /\ flat_kw.with_variance) =>
        /\ Len(flat_out.var) = 1
        /\ flat_out.var[1].kind = "var"
        /\ flat_out.var[1].val = FlatVariance


\* the physical x-coordinate bok_getxy derives for column x from the header
\* written for a mosaic of nx columns under the given origin
PhysicalX(nx, origin, x) ==
    bok_getxy(MosaicKeywords(om_hdr, nx, NRowsOf(om_outIm), om_ccdNum, origin),
              "physical", x, 0).x

\* C28: for CCD3 and CCD4 (det_i = 1) the header written has LTM1_1 = +1
\* under both origins, LTV1 = -4097 under 'center' and LTV1 = -nx under
\* 'lower left'; for a mosaic of 4096 columns the physical x-coordinates
\* derived from the two headers differ by exactly one pixel at every column
C28_PhysicalXOffByOnePixel ==
    (om_pc = "done" /\ det_i(om_ccdNum) = 1) =>
        /\ om_origin = "center" => om_hdr.LTM1_1 = 1 /\ om_hdr.LTV1 = -4097
        /\ om_origin = "lower left" =>
               om_hdr.LTM1_1 = 1 /\ om_hdr.LTV1 = -NColsOf(om_outIm)
        /\ om_origin \in {"center", "lower left"} =>
               /\ bok_getxy(om_hdr, "physical", 0, 0).x = -om_hdr.LTV1
               /\ \A x \in 0..4095 :
                      PhysicalX(4096, "center", x)
                          - PhysicalX(4096, "lower left", x) = 1
C28_Witness ==
    /\ om_pc = "done" /\ om_ccdNum = 4 /\ om_origin = "center"
    /\ om_hdr.LTV1 = -4097 /\ om_hdr.LTM1_1 = 1
    /\ PhysicalX(4096, "center", 4095) = 8192
    /\ PhysicalX(4096, "lower left", 4095) = 8191

\* the mosaic under the origin of the state has its columns (rows) in the
\* reverse order of the mosaic under 'lower left'
ColumnsReversed ==
    LET ll == _orient_mosaic(om_ims, om_ccdNum, "lower left")
        ny == NRowsOf(ll)
        nx == NColsOf(ll)
    IN  \A r \in 1..ny, c \in 1..nx :
            om_outIm[r][c] \in {ll[r][nx + 1 - c], ll[ny + 1 - r][nx + 1 - c]}
RowsReversed ==
    LET ll == _orient_mosaic(om_ims, om_ccdNum, "lower left")
        ny == NRowsOf(ll)
        nx == NColsOf(ll)
    IN  \A r \in 1..ny, c \in 1..nx :
            om_outIm[r][c] \in {ll[ny + 1 - r][c], ll[ny + 1 - r][nx + 1 - c]}

\* the header as it was read: the keywords of the origin are those of the
\* header in the state, and no LTM/LTV keyword has been added
KeywordsAsRead ==
    /\ \E h \in OrientHeaders :
           \A kw \in DOMAIN h : om_hdr[kw] = h[kw]
    /\ DOMAIN om_hdr =
              {"CD1_1", "CD1_2", "CD2_1", "CD2_2", "CRPIX1", "CRPIX2",
                 "DATASEC", "DETSEC"}

\* C29: under origin 'center' LTM1_1 is -1 exactly when the mosaic has its
\* columns reversed (CCD1, CCD2) and +1 otherwise, LTM2_2 is -1 exactly when
\* it has its rows reversed (CCD2, CCD4) and +1 otherwise,
\* CD2_1 = -LTM1_1 * plateScale, CD1_2 = LTM2_2 * plateScale and
\* CD1_1 = CD2_2 = 0; an origin other than 'center' and 'lower left' leaves
\* the WCS, LTM and LTV keywords as they were and raises no error (the
\* plate scales of the headers read are 2 and 3)
C29_SignsFollowFlips ==
    om_pc = "done" =>
        /\ om_origin = "center" =>
              /\ om_hdr.LTM1_1 = (IF ColumnsReversed THEN -1 ELSE 1)
              /\ ColumnsReversed <=> om_ccdNum \in {1, 2}
              /\ om_hdr.LTM2_2 = (IF RowsReversed THEN -1 ELSE 1)
              /\ RowsReversed <=> om_ccdNum \in {2, 4}
              /\ \E ps \in {2, 3} :
                    /\ om_hdr.CD2_1 = -om_hdr.LTM1_1 * ps
                    /\ om_hdr.CD1_2 = om_hdr.LTM2_2 * ps
              /\ om_hdr.CD1_1 = 0 /\ om_hdr.CD2_2 = 0
        /\ om_origin \notin {"center", "lower left"} => KeywordsAsRead
C29_Witness ==
    /\ om_pc = "done" /\ om_origin = "center" /\ om_ccdNum = 2
    /\ om_hdr.LTM1_1 = -1 /\ om_hdr.LTM2_2 = -1
    /\ om_hdr.CD2_1 = 3 /\ om_hdr.CD1_2 = -3
    /\ ColumnsReversed /\ RowsReversed


\* the amplifiers of a group
GroupAmps(ccdNum) == {extGroup(ccdNum)[i] : i \in 1..4}

\* C30: the groups of combine_ccds are IM(4n-3)..IM(4n) for CCD n and every
\* amplifier of IM1..IM16 is in exactly one of them; each group holds
\* exactly one center amplifier, the n-th one, and the reference amplifier
\* of its CCD, so that both look-ups of multiply_gain find their amplifier
\* in the group of the CCD being processed; ampOrder is a permutation of
\* 1..16 and the default gain table gives every amplifier the one nominal
\* gain listed at its place in ampOrder
C30_GroupsPartitionAmplifiers ==
    /\ \A n \in 1..4 : extGroup(n) = <<4 * n - 3, 4 * n - 2, 4 * n - 1, 4 * n>>
    /\ \A amp \in 1..16 : Cardinality({n \in 1..4 : amp \in GroupAmps(n)}) = 1
    /\ \A n \in 1..4 :
          /\ GroupAmps(n) \cap {bokCenterAmps[j] : j \in 1..4} = {bokCenterAmps[n]}
          /\ refAmps[n] \in GroupAmps(n)
    /\ Len(ampOrder) = 16 /\ Len(nominal_gain) = 16
    /\ \A amp \in 1..16 : Cardinality({i \in 1..16 : ampOrder[i] = amp}) = 1
    /\ DOMAIN DefaultInputGain = 1..16
    /\ \A i \in 1..16 : DefaultInputGain[ampOrder[i]] = Frac(nominal_gain[i], 100)
    /\ cc_pc = "ccd" =>
          LET grp == extGroup(cc_ccdNum)
          IN  /\ \E i \in 1..4 : grp[i] = refAmps[cc_ccdNum]
              /\ grp[IndexIn(grp, refAmps[cc_ccdNum])] = refAmps[cc_ccdNum]
              /\ CenterAmp(grp) = bokCenterAmps[cc_ccdNum]
              /\ \A i \in 1..4 : grp[i] \in DOMAIN cc_inputGain
    /\ (cc_out.ccdNum # 0 /\ cc_inputGain = DefaultInputGain /\ ~cc_skyGainCor) =>
          \A i \in 1..4 :
              \E j \in 1..16 :
                  /\ ampOrder[j] = extGroup(cc_out.ccdNum)[i]
                  /\ cc_out.gain[i] = Frac(nominal_gain[j], 100)
\* CCD4 has gone through multiply_gain with the sky correction and the
\* default gain table
C30_Witness ==
    /\ cc_pc = "close" /\ cc_out.ccdNum = 4
    /\ cc_inputGain = DefaultInputGain /\ cc_skyGainCor
    /\ cc_out.skyCounts.some

====
